---- MODULE Spec2Model ----
(***************************************************************************)
(* A model of the sorter-clubbing optimizer's analytical core:             *)
(*   - filter_and_sum            (src/algorithms.py)                       *)
(*   - find_elbow                (src/processing.py, src/bags.py)          *)
(*   - build_bag_summary         (src/processing.py, src/bags.py)          *)
(*   - build_optimal_branches    (src/processing.py, src/bags.py)          *)
(*   - calculate_dynamic_flow_analysis / _receiving_analysis (src/bags.py) *)
(*                                                                         *)
(* Each component is a pure function of its inputs; it is checked under a  *)
(* specification of its own whose Init draws the inputs from bounded sets  *)
(* and whose actions apply the function (or, for the accumulation loops,   *)
(* run it one iteration at a time).                                        *)
(***************************************************************************)
EXTENDS Integers, Sequences, FiniteSets, TLC

VARIABLES
    csv,        \* filter_and_sum: the frame pd.read_csv(header=None) returns
    layout,     \* filter_and_sum: the header rows/columns the file really has
    fsArgs,     \* filter_and_sum: the keyword arguments of the call
    fsResult,   \* filter_and_sum: what the call returned
    ex,         \* find_elbow: the argument x
    ey,         \* find_elbow: the argument y
    elbowRes,   \* find_elbow: what the call returned
    df_abs,     \* the wide absolute-value table (all_data.csv)
    df_pct,     \* the wide percentage table (all_data_percentage.csv)
    thresholds, \* the threshold of each Type (the two sliders)
    df_summary, \* the BagSummary table
    df_optimal, \* the OptimalSet table
    built,      \* whether the OptimalSet has been built from the BagSummary
    mapping,    \* des_mappings.json, one row per branch it lists
    df_fd,      \* the table of the sorting location requirement
    type_sel,   \* the selected Type (type_name of the flow analysis)
    region_sel, \* the selected region of the flow summaries
    flowPc,     \* where the flow analysis is: "idle", "flow", "flow_pct",
                \* "recv", "recv_pct", "all_india", "done"
    cursor,     \* the (row, branch column) the running loop is at
    flow_matrix, optimal_matrix, non_optimal_matrix,
                \* calculate_dynamic_flow_analysis: region x region sums
    total_receiving, optimal_receiving, non_optimal_receiving,
                \* calculate_dynamic_receiving_analysis: per-region sums
    flowOut,    \* the percentages and the All India summaries derived from
                \* the sums
    df_flow,    \* region_to_region_flow_analysis.csv as loaded, or None
    df_receiving, \* region_receiving_analysis.csv as loaded, or None
    lookup      \* what the last flow summary lookup returned

fsVars == <<csv, layout, fsArgs, fsResult>>
elbowVars == <<ex, ey, elbowRes>>
bagVars == <<df_abs, df_pct, thresholds, df_summary, df_optimal, built,
             mapping, df_fd>>
flowVars == <<type_sel, region_sel, flowPc, cursor, flow_matrix, optimal_matrix,
              non_optimal_matrix, total_receiving, optimal_receiving,
              non_optimal_receiving, flowOut, df_flow, df_receiving, lookup>>
vars == <<fsVars, elbowVars, bagVars, flowVars>>

(***************************************************************************)
(* Generic helpers.                                                        *)
(***************************************************************************)
Range(s) == {s[i] : i \in DOMAIN s}

RECURSIVE SumSeq(_)
SumSeq(s) == IF s = <<>> THEN 0 ELSE s[1] + SumSeq(Tail(s))

(***************************************************************************)
(* filter_and_sum (src/algorithms.py).                                     *)
(*                                                                         *)
(* Every cell of the CSV is text.  NaNCell is the cell pandas reads from   *)
(* an empty field; None is Python's None for an unset keyword argument.    *)
(* Neither is ever equal to a label or to a filter value.                  *)
(***************************************************************************)
None    == "<None>"
NaNCell == "<NaN>"

\* df.iloc[0:6, ...] / df.iloc[6:, ...]: the header rows are rows 0-5.
HeaderRows == 6
\* df.iloc[..., 5:] / df.iloc[..., 0:5]: the header columns are columns 0-4.
HeaderCols == 5

RowIndexNames == <<"org_zone", "org_region", "org_city", "org_branch",
                   "org_product", "mode">>
ColIndexNames == <<"ignored", "type", "des_zone", "des_region", "des_city",
                   "des_branch">>

\* The numerals the model's data cells are written with, and their values.
NumeralValue ==
    ("0" :> 0) @@ ("1" :> 1) @@ ("2" :> 2) @@ ("4" :> 4) @@ ("8" :> 8) @@
    ("10" :> 10) @@ ("20" :> 20) @@ ("30" :> 30) @@ ("40" :> 40)

NaN      == [kind |-> "nan", v |-> 0]
Num(n)   == [kind |-> "num", v |-> n]

\* pd.to_numeric(errors='coerce') on one cell: a numeral parses to its value,
\* anything else (a label, an empty field) becomes not-a-number.
ToNumeric(cell) ==
    IF cell \in DOMAIN NumeralValue THEN Num(NumeralValue[cell]) ELSE NaN

\* df.iloc[0:6, 5:] zipped per column: one 6-tuple of labels per data column.
ColTuples(df) ==
    LET nc == Len(df[1]) - HeaderCols
    IN  [c \in 1..nc |-> [i \in 1..HeaderRows |-> df[i][HeaderCols + c]]]

\* df.iloc[6:, 0:5]: one 5-tuple of labels per data row.
RowTuples(df) ==
    LET nr == Len(df) - HeaderRows
    IN  [r \in 1..nr |-> SubSeq(df[HeaderRows + r], 1, HeaderCols)]

\* product_to_mode.get(prod, "Unknown")
ProductToMode_GroundOnlyES(prod) ==
    CASE prod \in {"EP", "BP"} -> "Air"
      [] prod \in {"ES"}       -> "Ground"
      [] OTHER                  -> "Unknown"
ProductToMode(prod) ==
    CASE prod \in {"EP", "BP"}       -> "Air"
      [] prod \in {"ES", "BS", "GP"} -> "Ground"
      [] OTHER                       -> "Unknown"

\* The row MultiIndex with the derived "mode" level appended.
RowIndex(df) ==
    LET rt == RowTuples(df)
    IN  [r \in DOMAIN rt |-> Append(rt[r], ProductToMode(rt[r][5]))]

\* df.iloc[6:, 5:].apply(pd.to_numeric, errors='coerce')
DataValues(df) ==
    LET nr == Len(df) - HeaderRows
        nc == Len(df[1]) - HeaderCols
    IN  [r \in 1..nr |-> [c \in 1..nc |->
            ToNumeric(df[HeaderRows + r][HeaderCols + c])]]

RowFilters_Swapped(args) ==
    <<args.org_zone, args.org_region, args.org_branch, args.org_city,
      args.org_product, args.mode>>
RowFilters(args) ==
    <<args.org_zone, args.org_region, args.org_city, args.org_branch,
      args.org_product, args.mode>>
ColFilters(args) ==
    <<args.type_, args.des_zone, args.des_region, args.des_city,
      args.des_branch>>

\* The level of the column index the i-th column filter is compared with:
\* col_index_names[i+1], the +1 skipping "ignored" (0-based i in the source).
ColFilterLevel_NoSkip(i) == i
ColFilterLevel(i) == i + 1

\* get_level_values(row_index_names[i]) for each row filter i, on one row.
RowCompared(labels) == [i \in 1..Len(RowIndexNames) |-> labels[i]]

\* get_level_values(col_index_names[i+1]) for each column filter i, on one
\* column.
ColCompared(labels) ==
    [i \in 1..(Len(ColIndexNames) - 1) |-> labels[ColFilterLevel(i)]]

\* The loop "for i, val in enumerate(filters): if val is not None:
\*     mask &= (level_values == val)", from filter i on, for one row or column
\* whose compared labels are given.
RECURSIVE MaskFrom_Or(_, _, _)
MaskFrom_Or(compared, filters, i) ==
    IF i > Len(filters) THEN TRUE
    ELSE \/ (filters[i] # None => compared[i] = filters[i])
         \/ MaskFrom_Or(compared, filters, i + 1)
RECURSIVE MaskFrom(_, _, _)
MaskFrom(compared, filters, i) ==
    IF i > Len(filters) THEN TRUE
    ELSE /\ (filters[i] # None => compared[i] = filters[i])
         /\ MaskFrom(compared, filters, i + 1)

\* The rows kept: all of them when no row filter is set, else those the
\* mask keeps.
KeptRows(df, args) ==
    LET idx == RowIndex(df)
        rf  == RowFilters(args)
    IN  IF \E i \in DOMAIN rf : rf[i] # None
        THEN {r \in DOMAIN idx : MaskFrom(RowCompared(idx[r]), rf, 1)}
        ELSE DOMAIN idx

KeptCols(df, args) ==
    LET idx == ColTuples(df)
        cf  == ColFilters(args)
    IN  IF \E i \in DOMAIN cf : cf[i] # None
        THEN {c \in DOMAIN idx : MaskFrom(ColCompared(idx[c]), cf, 1)}
        ELSE DOMAIN idx

\* ndarray.sum() over a set of float cells: not-a-number as soon as one cell
\* is not-a-number (ndarray.sum does not skip NaN), 0 for no cell at all.
NdarraySum_EmptyNaN(data, cells) ==
    IF cells = {} THEN NaN
    ELSE LET F[S \in SUBSET cells] ==
                 IF S = {} THEN Num(0)
                 ELSE LET rc == CHOOSE x \in S : TRUE
                          rest == F[S \ {rc}]
                          cell == data[rc[1]][rc[2]]
                      IN  IF cell.kind = "nan" \/ rest.kind = "nan" THEN NaN
                          ELSE Num(cell.v + rest.v)
         IN  F[cells]
RECURSIVE NdarraySum(_, _)
NdarraySum(data, cells) ==
    IF cells = {} THEN Num(0)
    ELSE LET rc   == CHOOSE x \in cells : TRUE
             rest == NdarraySum(data, cells \ {rc})
             cell == data[rc[1]][rc[2]]
         IN  IF cell.kind = "nan" \/ rest.kind = "nan" THEN NaN
             ELSE Num(cell.v + rest.v)

\* filter_and_sum(**args) on the frame df.
filter_and_sum(args, df) ==
    NdarraySum(DataValues(df), KeptRows(df, args) \X KeptCols(df, args))

(***************************************************************************)
(* find_elbow (src/processing.py, src/bags.py; the two copies agree).      *)
(*                                                                         *)
(* The source computes in float64: it normalises the chord p2 - p1, and    *)
(* for every point takes the norm of p - (p1 + ((p - p1) . u) u).  The     *)
(* model keeps p and the chord L = p2 - p1 in integers and computes the    *)
(* same residual scaled by |L|^2, which is exact: its squared norm is the  *)
(* squared distance times |L|^4, the same factor for every point, so the   *)
(* order of the distances is kept.  What float64 adds is rounding: the     *)
(* unit vector L / |L| is exactly representable only when the chord is     *)
(* parallel to an axis.  Otherwise points at the same true distance get    *)
(* computed distances that differ by their rounding residue (the far end   *)
(* of the chord itself comes out a few 1e-16 away from it), and np.argmax  *)
(* returns the first maximum of the computed list: one of the indices of   *)
(* maximal true distance, not necessarily the first.  Indices are 0-based  *)
(* as in the source.                                                       *)
(***************************************************************************)
Dot(a, b) == a[1] * b[1] + a[2] * b[2]

\* p = np.array([x[i], y[i]]), i 0-based
Point(x, y, i) == <<x[i + 1], y[i + 1]>>

\* p2 - p1
Chord(x, y) ==
    <<x[Len(x)] - x[1], y[Len(y)] - y[1]>>

\* np.linalg.norm(p2 - p1), squared
Norm2(v) == Dot(v, v)

\* (p - proj_point) * |L|^2, with proj_point = p1 + proj_len * line_vec
ScaledResidual(x, y, i) ==
    LET L  == Chord(x, y)
        d  == <<x[i + 1] - x[1], y[i + 1] - y[1]>>
        pl == Dot(d, L)                    \* proj_len * |L|
    IN  <<d[1] * Norm2(L) - pl * L[1], d[2] * Norm2(L) - pl * L[2]>>

\* np.linalg.norm(p - proj_point) squared, times |L|^4
Distance2(x, y, i) == Norm2(ScaledResidual(x, y, i))

\* if len(x) < 2: return 0
TooFew_OnlyEmpty(x) == Len(x) < 1
TooFew(x) == Len(x) < 2

\* The division (p2 - p1) / norm with norm = 0.0: numpy evaluates 0/0 to
\* not-a-number under a RuntimeWarning; every distance is then not-a-number.
DividesByZero(x, y) == ~TooFew(x) /\ Norm2(Chord(x, y)) = 0

\* How many distances the loop "for i in range(len(x))" appends.
DistancesEvaluated(x) == IF TooFew(x) THEN 0 ELSE Len(x)

\* float64 computes the projection exactly when the chord is axis-parallel.
ExactInFloat(x, y) ==
    LET L == Chord(x, y) IN L[1] = 0 \/ L[2] = 0

MaxDistance2(x, y) ==
    LET ds == {Distance2(x, y, i) : i \in 0..(Len(x) - 1)}
    IN  CHOOSE m \in ds : \A d \in ds : d <= m

\* The indices of maximal distance.
Farthest(x, y) ==
    {i \in 0..(Len(x) - 1) : Distance2(x, y, i) = MaxDistance2(x, y)}

FirstOf(S) == CHOOSE i \in S : \A j \in S : i <= j

\* int(np.argmax(distances)): the values find_elbow(x, y) can return.
Argmax(x, y) ==
    IF ExactInFloat(x, y) THEN {FirstOf(Farthest(x, y))} ELSE Farthest(x, y)

find_elbow(x, y) ==
    IF TooFew(x) THEN {0}
    ELSE IF DividesByZero(x, y) THEN {0}   \* argmax of all-NaN is 0
    ELSE Argmax(x, y)

(***************************************************************************)
(* Text.  A string is a sequence of characters, so that joining a branch   *)
(* list with ", " and splitting it again at "," is computed, not assumed.  *)
(***************************************************************************)
\* ", ".join(list)
RECURSIVE Join(_)
Join(list) ==
    IF list = <<>> THEN <<>>
    ELSE IF Len(list) = 1 THEN list[1]
    ELSE list[1] \o <<",", " ">> \o Join(Tail(list))

\* s.split(","), the field in progress being cur
RECURSIVE SplitFrom(_, _)
SplitFrom(s, cur) ==
    IF s = <<>> THEN <<cur>>
    ELSE IF s[1] = "," THEN <<cur>> \o SplitFrom(Tail(s), <<>>)
    ELSE SplitFrom(Tail(s), Append(cur, s[1]))
Split(s) == SplitFrom(s, <<>>)

\* s.strip()
RECURSIVE LStrip(_)
LStrip(s) == IF s # <<>> /\ s[1] = " " THEN LStrip(Tail(s)) ELSE s
RECURSIVE RStrip(_)
RStrip(s) ==
    IF s # <<>> /\ s[Len(s)] = " " THEN RStrip(SubSeq(s, 1, Len(s) - 1)) ELSE s
Strip(s) == RStrip(LStrip(s))

\* [b.strip() for b in branches_str.split(",") if b.strip()]
BranchesOf(text) ==
    LET parts == Split(text)
        strip == [i \in DOMAIN parts |-> Strip(parts[i])]
    IN  SelectSeq(strip, LAMBDA b : b # <<>>)

(***************************************************************************)
(* The loaded tables (load_data / bags.py lines 28-29, 190-207).           *)
(* A wide table is [cols |-> the branch columns, rows |-> its rows]; a row *)
(* of df_abs is [Region, Type, Service_Type, Total, vals] and a row of     *)
(* df_pct is [Region, Type, Service_Type, vals], vals holding one number   *)
(* per branch column.                                                      *)
(***************************************************************************)
KeyOf(r) == <<r.Region, r.Service_Type, r.Type>>

\* df.melt(id_vars=..., var_name="Branch", value_name=...): one record per
\* (branch column, row), column by column.
RECURSIVE MeltCols(_, _)
MeltCols(df, c) ==
    IF c > Len(df.cols) THEN <<>>
    ELSE [r \in 1..Len(df.rows) |->
            [Region |-> df.rows[r].Region, Type |-> df.rows[r].Type,
             Service_Type |-> df.rows[r].Service_Type,
             Branch |-> df.cols[c], Value |-> df.rows[r].vals[c]]]
         \o MeltCols(df, c + 1)
Melt(df) == MeltCols(df, 1)

\* pd.merge(df_abs_long, df_pct_long, on=[Region, Type, Service_Type,
\* Branch], how="inner"): the matching pairs, in the order of the left table.
RECURSIVE Merge(_, _)
Merge(left, right) ==
    IF left = <<>> THEN <<>>
    ELSE LET l == left[1]
             m == SelectSeq(right, LAMBDA q :
                     KeyOf(q) = KeyOf(l) /\ q.Branch = l.Branch)
         IN  [i \in 1..Len(m) |->
                [Region |-> l.Region, Type |-> l.Type,
                 Service_Type |-> l.Service_Type, Branch |-> l.Branch,
                 Value |-> l.Value, Percentage |-> m[i].Value]]
             \o Merge(Tail(left), right)

DfMerge(abs, pct) == Merge(Melt(abs), Melt(pct))

\* The (Region, Service_Type, Type) keys of the model's tables in the order
\* groupby sorts them.
AllKeysSorted ==
    << <<"AMD", "Air", "Billed Wt">>, <<"AMD", "Air", "Pieces">>,
       <<"AMD", "Air", "Volume">>,    <<"AMD", "Ground", "Volume">>,
       <<"BLR", "Air", "Volume">>,    <<"BLR", "Ground", "Volume">> >>

\* The group keys of df.groupby(["Region", "Service_Type", "Type"]), sorted.
GroupKeys(df) ==
    SelectSeq(AllKeysSorted, LAMBDA k : \E i \in DOMAIN df : KeyOf(df[i]) = k)

(***************************************************************************)
(* build_bag_summary (src/processing.py 35-54; src/bags.py 267-283).       *)
(***************************************************************************)
\* thresholds.get(type_, 0)
ThresholdOf(th, type_) == IF type_ \in DOMAIN th THEN th[type_] ELSE 0

\* group["Value"] >= thresh
AboveThreshold_Strict(value, thresh) == value > thresh
AboveThreshold_Inverted(value, thresh) == value <= thresh
AboveThreshold(value, thresh) == value >= thresh

PercentagesOf(recs) == [i \in DOMAIN recs |-> recs[i].Percentage]
CodesOf(recs) == [i \in DOMAIN recs |-> recs[i].Branch]

\* The row build_bag_summary appends for one group.
BagRow(merged, th, key) ==
    LET group    == SelectSeq(merged, LAMBDA q : KeyOf(q) = key)
        thresh   == ThresholdOf(th, key[3])
        filtered == SelectSeq(group, LAMBDA q : AboveThreshold(q.Value, thresh))
    IN  [Region |-> key[1], Service_Type |-> key[2], Type |-> key[3],
         Num_Branches |-> Len(filtered),
         Cumulative_Percentage |-> SumSeq(PercentagesOf(filtered)),
         Branches |-> Join(CodesOf(filtered))]

build_bag_summary_DropEmpty(merged, th) ==
    LET keys == GroupKeys(merged)
    IN  SelectSeq([g \in DOMAIN keys |-> BagRow(merged, th, keys[g])],
                  LAMBDA row : row.Num_Branches > 0)
build_bag_summary(merged, th) ==
    LET keys == GroupKeys(merged)
    IN  [g \in DOMAIN keys |-> BagRow(merged, th, keys[g])]

(***************************************************************************)
(* build_optimal_branches (src/processing.py 77-115; src/bags.py 286-317). *)
(* Where the source leaves the result open (the order sort_values gives    *)
(* rows of equal Percentage under its default, unstable sort; the index    *)
(* find_elbow returns among equal distances) the operators below return    *)
(* the set of the possible results.                                        *)
(***************************************************************************)
\* df_pct_long["Branch"].isin(branches)
InBranches_Any(b, branches) == TRUE
InBranches(b, branches) == \E i \in DOMAIN branches : branches[i] = b

\* df_pct_long[(Region == ..) & (Service_Type == ..) & (Type == ..) &
\*             Branch.isin(branches)]
PctSubset(pct_long, row) ==
    LET branches == BranchesOf(row.Branches)
    IN  SelectSeq(pct_long, LAMBDA q :
            /\ q.Region = row.Region
            /\ q.Service_Type = row.Service_Type
            /\ q.Type = row.Type
            /\ InBranches(q.Branch, branches))

IndexOrders(n) ==
    {p \in [1..n -> 1..n] : \A i, j \in 1..n : i # j => p[i] # p[j]}

\* (the rows in any order)
SortDescending_Unsorted(recs) ==
    {[i \in 1..Len(recs) |-> recs[p[i]]] : p \in IndexOrders(Len(recs))}

\* subset.sort_values("Percentage", ascending=False).reset_index(drop=True):
\* the rows in an order of non-increasing Percentage.
SortDescending(recs) ==
    LET n == Len(recs)
    IN  {[i \in 1..n |-> recs[p[i]]] : p \in
            {q \in IndexOrders(n) :
                \A i \in 1..(n - 1) : recs[q[i]].Value >= recs[q[i + 1]].Value}}

\* subset["Percentage"].cumsum()
RECURSIVE CumSumFrom(_, _, _)
CumSumFrom(vals, i, acc) ==
    IF i > Len(vals) THEN <<>>
    ELSE <<acc + vals[i]>> \o CumSumFrom(vals, i + 1, acc + vals[i])
CumSum(vals) == CumSumFrom(vals, 1, 0)

\* subset.loc[:elbow_idx, "Branch"]: a label slice, both ends included.
UpToElbow_Exclusive(sorted, elbow_idx) == SubSeq(sorted, 1, elbow_idx)
UpToElbow(sorted, elbow_idx) == SubSeq(sorted, 1, elbow_idx + 1)

\* The row appended for one BagSummary row, given the sorted subset and the
\* elbow index.
OptimalRow(row, sorted, elbow_idx) ==
    LET x == [i \in 1..Len(sorted) |-> i]                   \* np.arange(1, n+1)
        y == CumSum([i \in DOMAIN sorted |-> sorted[i].Value])
    IN  [Region |-> row.Region, Service_Type |-> row.Service_Type,
         Type |-> row.Type,
         Optimal_Num_Branches |-> x[elbow_idx + 1],
         Optimal_Cumulative_Percentage |-> y[elbow_idx + 1],
         Branches |-> Join(CodesOf(UpToElbow(sorted, elbow_idx)))]

\* The rows the loop body can append for one BagSummary row: none when the
\* branch list is blank or the lookup finds nothing.
OptimalRowsFor(row, pct_long) ==
    IF Strip(row.Branches) = <<>> THEN {}
    ELSE LET subset == PctSubset(pct_long, row)
         IN  IF subset = <<>> THEN {}
             ELSE {OptimalRow(row, sorted, e) :
                     <<sorted, e>> \in
                       {se \in SortDescending(subset) \X (0..(Len(subset) - 1)) :
                          se[2] \in find_elbow(
                              [i \in 1..Len(subset) |-> i],
                              CumSum([i \in DOMAIN se[1] |-> se[1][i].Value]))}}

\* The tables build_optimal_branches can return, from BagSummary row i on.
RECURSIVE OptimalFrom_ZeroFill(_, _, _)
OptimalFrom_ZeroFill(df_bag, pct_long, i) ==
    IF i > Len(df_bag) THEN {<<>>}
    ELSE LET here == OptimalRowsFor(df_bag[i], pct_long)
             rest == OptimalFrom_ZeroFill(df_bag, pct_long, i + 1)
             zero == [Region |-> df_bag[i].Region,
                      Service_Type |-> df_bag[i].Service_Type,
                      Type |-> df_bag[i].Type, Optimal_Num_Branches |-> 0,
                      Optimal_Cumulative_Percentage |-> 0, Branches |-> <<>>]
         IN  {<<r>> \o t : r \in (IF here = {} THEN {zero} ELSE here),
                            t \in rest}
RECURSIVE OptimalFrom(_, _, _)
OptimalFrom(df_bag, pct_long, i) ==
    IF i > Len(df_bag) THEN {<<>>}
    ELSE LET here == OptimalRowsFor(df_bag[i], pct_long)
             rest == OptimalFrom(df_bag, pct_long, i + 1)
         IN  IF here = {} THEN rest
             ELSE {<<r>> \o t : r \in here, t \in rest}

build_optimal_branches(df_bag, pct_long) == OptimalFrom(df_bag, pct_long, 1)

(***************************************************************************)
(* calculate_dynamic_flow_analysis and calculate_dynamic_receiving_analysis *)
(* (src/bags.py 41-114 and 117-188).                                       *)
(***************************************************************************)
\* region_mapping: first letter of a branch code -> region
RegionMapping ==
    ("A" :> "AMD") @@ ("B" :> "BLR") @@ ("C" :> "CHE") @@ ("E" :> "CJB") @@
    ("H" :> "HYD") @@ ("I" :> "IDR") @@ ("J" :> "HHPT") @@ ("K" :> "CCU") @@
    ("M" :> "MUM") @@ ("N" :> "DDL") @@ ("O" :> "COK") @@ ("P" :> "PNQ") @@
    ("Q" :> "JAI") @@ ("R" :> "NGP") @@ ("T" :> "PAT") @@ ("U" :> "UPT") @@
    ("V" :> "VJA") @@ ("W" :> "BBI") @@ ("X" :> "GAU")

\* An empty cell of df_abs (what pd.isna is true of).
Missing == -1

\* regions = df_abs['Region'].unique()
RegionsOf(abs) == {abs.rows[r].Region : r \in DOMAIN abs.rows}

\* pd.DataFrame(0, index=regions, columns=regions) / pd.Series(0, index=regions)
ZeroMatrix(regions) == [o \in regions |-> [d \in regions |-> 0]]
ZeroSeries(regions) == [d \in regions |-> 0]

\* (the lookup matching the region and the service type only)
OptimalBranchesFor_AnyType(optimal, key) ==
    LET hits == {i \in DOMAIN optimal :
                    /\ optimal[i].Region = key[1]
                    /\ optimal[i].Service_Type = key[2]}
    IN  IF hits = {} THEN {}
        ELSE LET last == CHOOSE i \in hits : \A j \in hits : j <= i
             IN  Range(BranchesOf(optimal[last].Branches))

\* optimal_branches_dict.get(key, set()), the dictionary having been filled
\* row by row (a later row of the same key replaces an earlier one).
OptimalBranchesFor(optimal, key) ==
    LET hits == {i \in DOMAIN optimal : KeyOf(optimal[i]) = key}
    IN  IF hits = {} THEN {}
        ELSE LET last == CHOOSE i \in hits : \A j \in hits : j <= i
             IN  Range(BranchesOf(optimal[last].Branches))

\* region_mapping.get(branch[0]) for a non-empty code, else None
DestRegion(branch) ==
    IF branch # <<>> /\ branch[1] \in DOMAIN RegionMapping
    THEN RegionMapping[branch[1]] ELSE None

\* (without the pd.isna test)
Accumulates_NoMissing(abs, flow_value, branch) ==
    /\ flow_value # 0
    /\ DestRegion(branch) # None
    /\ DestRegion(branch) \in RegionsOf(abs)

\* Whether the inner loop reaches the accumulation for a value and a branch:
\* not (pd.isna(flow_value) or flow_value == 0), and
\* dest_region and dest_region in regions.
Accumulates(abs, flow_value, branch) ==
    /\ flow_value # Missing
    /\ flow_value # 0
    /\ DestRegion(branch) # None
    /\ DestRegion(branch) \in RegionsOf(abs)

\* What the if/else on "branch in optimal_branches" adds to the optimal and
\* to the non-optimal side.
OptimalShare(isOptimal, flow_value) == IF isOptimal THEN flow_value ELSE 0
NonOptimalShare_NoElse(isOptimal, flow_value) == flow_value
NonOptimalShare(isOptimal, flow_value) == IF isOptimal THEN 0 ELSE flow_value

\* The sums are float64 sums.  A value is a whole number of units (the unit
\* being the weight of the lowest bit in play) and the format keeps the
\* MantissaBits leading bits of a result, rounding to nearest, ties to the
\* even mantissa, as IEEE 754 addition does (with 53 bits in float64).
MantissaBits == 3
RECURSIVE Pow2(_)
Pow2(k) == IF k = 0 THEN 1 ELSE 2 * Pow2(k - 1)
RECURSIVE BitLength(_)
BitLength(n) == IF n = 0 THEN 0 ELSE 1 + BitLength(n \div 2)
FRound(n) ==
    IF n < Pow2(MantissaBits) THEN n
    ELSE LET q  == Pow2(BitLength(n) - MantissaBits)
             lo == (n \div q) * q
             r  == n - lo
         IN  IF 2 * r < q THEN lo
             ELSE IF 2 * r > q THEN lo + q
             ELSE IF (lo \div q) % 2 = 0 THEN lo ELSE lo + q
FAdd(a, b) == FRound(a + b)

\* matrix.loc[origin, dest] += flow_value
AddAt(matrix, origin, dest, flow_value) ==
    [matrix EXCEPT ![origin][dest] = FAdd(@, flow_value)]
\* series[dest] += flow_value
AddTo(series, dest, flow_value) ==
    [series EXCEPT ![dest] = FAdd(@, flow_value)]

\* (part / total * 100).round(2), in hundredths of a percent: the nearest
\* whole number of hundredths, a tie going to the even one.
Round2Pct(part, total) ==
    LET n == part * 10000
        q == n \div total
        r == n % total
    IN  IF 2 * r < total THEN q
        ELSE IF 2 * r > total THEN q + 1
        ELSE IF q % 2 = 0 THEN q ELSE q + 1

\* (the percentage cut to a whole percent)
PctCell_Unrounded(part, total) ==
    IF total > 0 THEN ((part * 100) \div total) * 100 ELSE 0
\* One cell of a percentage matrix or series: 0.0 unless the total is > 0.
PctCell(part, total) ==
    IF total > 0 THEN Round2Pct(part, total) ELSE 0

\* The percentage matrix of a part of the flow, origin by destination.
PctMatrix(part, flow) ==
    [o \in DOMAIN flow |-> [d \in DOMAIN flow[o] |->
        PctCell(part[o][d], flow[o][d])]]
\* The percentage series of a part of the receiving totals.
PctSeries(part, total) ==
    [d \in DOMAIN total |-> PctCell(part[d], total[d])]

\* df_abs['Region'].unique() as the index of the matrices: the regions in the
\* order of their first row.
RECURSIVE UniqueRegions(_, _)
UniqueRegions(rows, i) ==
    IF i = 0 THEN <<>>
    ELSE LET s == UniqueRegions(rows, i - 1)
         IN  IF rows[i].Region \in Range(s) THEN s
             ELSE Append(s, rows[i].Region)
RegionSeq(abs) == UniqueRegions(abs.rows, Len(abs.rows))

\* series.sum(): the float64 sum in index order.
RECURSIVE SeriesSumFrom(_, _, _)
SeriesSumFrom(series, index, k) ==
    IF k = 0 THEN 0
    ELSE FAdd(SeriesSumFrom(series, index, k - 1), series[index[k]])
SeriesSum(series, index) == SeriesSumFrom(series, index, Len(index))

\* matrix.sum(): one sum per column (destination) over the rows (origins).
ColumnSums(matrix, index) ==
    [d \in Range(index) |->
        SeriesSum([o \in Range(index) |-> matrix[o][d]], index)]
\* (the sums of the first column only)
MatrixSum_FirstColumn(matrix, index) ==
    IF index = <<>> THEN 0 ELSE ColumnSums(matrix, index)[index[1]]
\* matrix.sum().sum()
MatrixSum(matrix, index) == SeriesSum(ColumnSums(matrix, index), index)

\* (part / total * 100) if total > 0 else 0, unrounded: a fraction
PctOfTotal(part, total) ==
    IF total > 0 THEN <<part * 100, total>> ELSE <<0, 1>>

\* The cursor after cell (r, c) of a table with the given rows and columns;
\* row Len(rows) + 1 is the end of the outer loop.
NextCell(abs, r, c) ==
    IF c < Len(abs.cols) THEN <<r, c + 1>> ELSE <<r + 1, 1>>
LoopDone(abs, cur) == cur[1] > Len(abs.rows)

(***************************************************************************)
(* The inputs of filter_and_sum: CSV files of two data rows and two data   *)
(* columns.  The data cells are 1, 2, 4 and 8, so that a sum names the     *)
(* cells that went into it.                                                *)
(***************************************************************************)
\* A file with the given column labels (one tuple per data column, top
\* header row first), row labels (one tuple per data row) and data cells; the
\* corner above the row labels is empty.
MakeCsv(colLabels, rowLabels, vals) ==
    LET H  == Len(colLabels[1])
        W  == Len(rowLabels[1])
        nc == Len(colLabels)
        nr == Len(rowLabels)
    IN  [i \in 1..(H + nr) |-> [j \in 1..(W + nc) |->
            IF i <= H
            THEN IF j <= W THEN NaNCell ELSE colLabels[j - W][i]
            ELSE IF j <= W THEN rowLabels[i - H][j]
                 ELSE vals[i - H][j - W]]]

\* The value each filter has when it is set.
GivenValue ==
    [type_ |-> "volume", mode |-> "Air",
     org_zone |-> "Z1", org_region |-> "R1", org_city |-> "C1",
     org_branch |-> "B1", org_product |-> "EP",
     des_zone |-> "Z1", des_region |-> "R1", des_city |-> "C1",
     des_branch |-> "B1"]

FilterNames == DOMAIN GivenValue

\* Every combination of set and unset filters.
ArgsSet ==
    {[f \in FilterNames |-> IF f \in S THEN GivenValue[f] ELSE None] :
        S \in SUBSET FilterNames}

NoArgs == [f \in FilterNames |-> None]

\* Row labels (zone, region, city, branch, product): one that every row
\* filter matches, and ones that differ from it at a single level.
RowBase    == <<"Z1", "R1", "C1", "B1", "EP">>
RowVariants ==
    { <<"Z2", "R1", "C1", "B1", "EP">>, <<"Z1", "R2", "C1", "B1", "EP">>,
      <<"Z1", "R1", "C2", "B1", "EP">>, <<"Z1", "R1", "C1", "B2", "EP">>,
      <<"Z1", "R1", "C1", "B1", "BP">>, <<"Z1", "R1", "C1", "B1", "ES">>,
      <<"Z1", "R1", "C1", "B1", "XX">> }
RowPairs ==
    {<<RowBase, v>> : v \in RowVariants} \cup
    {<<v, RowBase>> : v \in {<<"Z1", "R1", "C1", "B2", "EP">>}} \cup
    { << <<"Z2", "R1", "C1", "B1", "EP">>, <<"Z1", "R1", "C1", "B1", "GP">> >> }

\* Column labels (ignored, type, zone, region, city, branch).
ColBase    == <<"hdr", "volume", "Z1", "R1", "C1", "B1">>
ColVariants ==
    { <<"volume", "weight", "Z1", "R1", "C1", "B1">>,
      <<"hdr", "weight", "Z1", "R1", "C1", "B1">>,
      <<"hdr", "volume", "Z2", "R1", "C1", "B1">>,
      <<"hdr", "volume", "Z1", "R2", "C1", "B1">>,
      <<"hdr", "volume", "Z1", "R1", "C2", "B1">>,
      <<"hdr", "volume", "Z1", "R1", "C1", "B2">> }
ColPairs ==
    {<<ColBase, v>> : v \in ColVariants} \cup
    {<<v, ColBase>> : v \in {<<"hdr", "volume", "Z1", "R1", "C1", "B2">>}}

\* The data block: all numeric, or with one cell that is not a number (text,
\* or an empty field).
DataBlocks ==
    { << <<"1", "2">>, <<"4", "8">> >>,
      << <<"1", "2">>, <<"4", "n/a">> >>,
      << <<NaNCell, "2">>, <<"4", "8">> >> }

ExpectedLayout == [rows |-> HeaderRows, cols |-> HeaderCols]

\* Files of another schema variant: five header rows (no "ignored" row), or
\* the seven label columns (zone, region, city, branch code, branch name,
\* mode, product) and seven leading rows the dashboard reads.
DropFirst(t)  == Tail(t)
SevenCols(t)  == <<t[1], t[2], t[3], t[4], "name", ProductToMode(t[5]), t[5]>>
SevenRows(t)  == <<"title">> \o t
FiveHeaderRows(cp, rp, d) ==
    [layout |-> [rows |-> 5, cols |-> 5],
     csv    |-> MakeCsv([c \in 1..2 |-> DropFirst(cp[c])], rp, d)]
SevenBySeven(cp, rp, d) ==
    [layout |-> [rows |-> 7, cols |-> 7],
     csv    |-> MakeCsv([c \in 1..2 |-> SevenRows(cp[c])],
                        [r \in 1..2 |-> SevenCols(rp[r])], d)]
SixByFive(cp, rp, d) ==
    [layout |-> ExpectedLayout, csv |-> MakeCsv(cp, rp, d)]

NumericBlock == << <<"1", "2">>, <<"4", "8">> >>

\* A few label pairs to combine with every pair of the other side.
FewRowPairs ==
    { <<RowBase, <<"Z2", "R1", "C1", "B1", "EP">> >>,
      <<RowBase, <<"Z1", "R1", "C1", "B1", "ES">> >> }
FewColPairs ==
    { <<ColBase, <<"hdr", "weight", "Z1", "R1", "C1", "B1">> >>,
      <<ColBase, <<"hdr", "volume", "Z1", "R1", "C1", "B2">> >> }

\* A matrix of 2 origin branches x 2 destination branches holding
\* [[10, 20], [30, 40]], the given branch being the first origin row and the
\* second destination column; and a file with a BS product row.
ScenarioBlock == << <<"10", "20">>, <<"30", "40">> >>
ScenarioFile ==
    SixByFive(<< <<"hdr", "volume", "Z1", "R1", "C1", "B2">>, ColBase >>,
              << RowBase, <<"Z1", "R1", "C1", "B2", "EP">> >>,
              ScenarioBlock)
GroundFile ==
    SixByFive(<< ColBase, <<"hdr", "weight", "Z1", "R1", "C1", "B1">> >>,
              << <<"Z1", "R1", "C1", "B1", "BS">>,
                 <<"Z1", "R1", "C1", "B1", "GP">> >>,
              NumericBlock)

\* Calls with another value of the mode filter, alone or with one more row
\* filter or a column filter.
ModeArgs ==
    {[NoArgs EXCEPT !.mode = m, ![f] = IF f = "mode" THEN m ELSE GivenValue[f]] :
        m \in {"Ground", "Unknown"},
        f \in {"mode", "org_zone", "org_product", "type_"}}

Files ==
    {SixByFive(cp, rp, NumericBlock) : cp \in ColPairs, rp \in FewRowPairs}
    \cup {SixByFive(cp, rp, NumericBlock) : cp \in FewColPairs, rp \in RowPairs}
    \cup {SixByFive(cp, rp, d) :
            cp \in FewColPairs, rp \in FewRowPairs, d \in DataBlocks}
    \cup {FiveHeaderRows(cp, rp, NumericBlock) :
            cp \in {<<ColBase, v>> : v \in ColVariants},
            rp \in {<<RowBase, RowBase>>}}
    \cup {SevenBySeven(cp, rp, NumericBlock) :
            cp \in {<<ColBase, ColBase>>}, rp \in {<<RowBase, RowBase>>}}
    \cup {ScenarioFile, GroundFile}

NotCalled == [kind |-> "none", v |-> 0]

FilterIdle ==
    csv = <<>> /\ layout = ExpectedLayout /\ fsArgs = NoArgs
    /\ fsResult = NotCalled

NoElbow == [called |-> FALSE, idx |-> 0, invalid |-> FALSE, distances |-> 0,
            build |-> "plain", line_vec |-> <<>>, dist64 |-> <<>>,
            again |-> FALSE, shift |-> <<0, 0>>, twice |-> FALSE, idx2 |-> 0]
ElbowIdle == ex = <<>> /\ ey = <<>> /\ elbowRes = NoElbow

EmptyTable == [cols |-> <<>>, rows |-> <<>>]
\* df_fd before the statements that build it have run.
NoSorting == [kind |-> "none", rows |-> <<>>]

BagIdle ==
    /\ df_abs = EmptyTable /\ df_pct = EmptyTable /\ thresholds = <<>>
    /\ df_summary = <<>> /\ df_optimal = <<>> /\ built = FALSE
    /\ mapping = <<>> /\ df_fd = NoSorting

NoFlowOut ==
    [optimal_pct_matrix |-> <<>>, non_optimal_pct_matrix |-> <<>>,
     optimal_pct |-> <<>>, non_optimal_pct |-> <<>>,
     all_india_sending |-> <<>>, all_india_receiving |-> <<>>,
     sending_summary |-> <<>>, receiving_summary |-> <<>>]
\* A table load_flow_analysis_data could not read (None), and a table read.
NoTable == [loaded |-> FALSE, rows |-> <<>>]
Table(rows) == [loaded |-> TRUE, rows |-> rows]
\* No lookup made yet.
NoLookup == [fn |-> "none", result |-> <<>>]
LookupIdle ==
    /\ df_flow = NoTable /\ df_receiving = NoTable /\ lookup = NoLookup

FlowIdle ==
    /\ LookupIdle
    /\ type_sel = None /\ region_sel = None
    /\ flowPc = "idle" /\ cursor = <<1, 1>>
    /\ flow_matrix = <<>> /\ optimal_matrix = <<>> /\ non_optimal_matrix = <<>>
    /\ total_receiving = <<>> /\ optimal_receiving = <<>>
    /\ non_optimal_receiving = <<>>
    /\ flowOut = NoFlowOut

FilterInit ==
    /\ \E f \in Files : csv = f.csv /\ layout = f.layout
    /\ fsArgs = NoArgs
    /\ fsResult = NotCalled
    /\ ElbowIdle
    /\ BagIdle
    /\ FlowIdle

\* One call filter_and_sum(**args, csv_path=...) on the file.
FilterAndSum(args) ==
    /\ fsResult = NotCalled
    /\ fsArgs' = args
    /\ fsResult' = filter_and_sum(args, csv)
    /\ UNCHANGED <<csv, layout, elbowVars, bagVars, flowVars>>

FilterNext == \E args \in ArgsSet \cup ModeArgs : FilterAndSum(args)

SpecFilter == FilterInit /\ [][FilterNext]_vars

(***************************************************************************)
(* The Compute Sum button of the filter dashboards (src/dashboard.py       *)
(* 202-221, src/ui.py 122-140): the handler turns the widgets' values into *)
(* keyword arguments and calls filter_and_sum.                             *)
(***************************************************************************)
\* The parameters of filter_and_sum (algorithms.py 3-8) besides csv_path.
Parameters == FilterNames

\* The keywords each handler passes besides csv_path.
DashboardKeywords ==
    {"type_", "mode", "org_zone", "org_region", "org_city",
     "org_branch_code", "org_product", "des_zone", "des_region", "des_city",
     "des_branch_code"}
UiKeywords ==
    {"org_zone", "org_region", "org_city", "org_branch", "org_product",
     "type_", "des_zone", "des_region", "des_city", "des_branch"}

\* The parameter a widget's value is meant for.
ParameterOf(keyword) ==
    CASE keyword = "org_branch_code" -> "org_branch"
      [] keyword = "des_branch_code" -> "des_branch"
      [] OTHER -> keyword

\* What a selectbox holds when nothing is selected: the empty option, or
\* None for a branch code looked up from an empty selection.
Unselected == {"", None}

\* none_if_empty(s): s if s and s.strip() else None
none_if_empty(s) == IF s \in Unselected \/ s = " " THEN None ELSE s

\* What Python raises when a call names a keyword the function does not
\* have.
TypeError == [kind |-> "TypeError", v |-> 0]

\* The call filter_and_sum(**kwargs, csv_path=csv_path).
CallFilterAndSum(kwargs, df) ==
    IF DOMAIN kwargs \subseteq Parameters
    THEN filter_and_sum([f \in Parameters |->
                           IF f \in DOMAIN kwargs THEN kwargs[f] ELSE None],
                        df)
    ELSE TypeError

\* The files behind the dashboard.
DashboardFiles == {ScenarioFile, GroundFile}

\* The widgets: each one unselected or holding the value of its filter.
Widgets(keywords) ==
    {[k \in keywords |-> IF k \in S THEN GivenValue[ParameterOf(k)]
                         ELSE IF ParameterOf(k) = k THEN "" ELSE None] :
        S \in SUBSET keywords}

DashboardInit ==
    /\ \E f \in DashboardFiles : csv = f.csv /\ layout = f.layout
    /\ fsArgs = NoArgs
    /\ fsResult = NotCalled
    /\ ElbowIdle
    /\ BagIdle
    /\ FlowIdle

\* The keyword arguments of the call, from the widgets' values.
KeywordArguments(w) == [k \in DOMAIN w |-> none_if_empty(w[k])]

\* dashboard.py: if st.button("Compute Sum"): result = filter_and_sum(...)
DashboardComputeSum ==
    /\ fsResult = NotCalled
    /\ \E w \in Widgets(DashboardKeywords) :
          /\ fsArgs' = KeywordArguments(w)
          /\ fsResult' = CallFilterAndSum(fsArgs', csv)
    /\ UNCHANGED <<csv, layout, elbowVars, bagVars, flowVars>>

\* ui.py: if st.button("Compute Sum"): result = filter_and_sum(...)
UiComputeSum ==
    /\ fsResult = NotCalled
    /\ \E w \in Widgets(UiKeywords) :
          /\ fsArgs' = KeywordArguments(w)
          /\ fsResult' = CallFilterAndSum(fsArgs', csv)
    /\ UNCHANGED <<csv, layout, elbowVars, bagVars, flowVars>>

DashboardNext ==
    \/ DashboardComputeSum
    \/ UiComputeSum

SpecDashboard == DashboardInit /\ [][DashboardNext]_vars

(***************************************************************************)
(* Claims about filter_and_sum.  The statements below read the file by the *)
(* documented schema (header rows 0-5, header columns 0-4) and name the    *)
(* levels directly; they do not use the masks of the code.                 *)
(***************************************************************************)
Called == fsResult # NotCalled

RowSideFilters == {"org_zone", "org_region", "org_city", "org_branch",
                   "org_product", "mode"}
ColSideFilters == {"type_", "des_zone", "des_region", "des_city",
                   "des_branch"}

\* The label data row r carries at a row-side level.
RowLabel(r, f) ==
    LET row == csv[6 + r]
    IN  CASE f = "org_zone"    -> row[1]
          [] f = "org_region"  -> row[2]
          [] f = "org_city"    -> row[3]
          [] f = "org_branch"  -> row[4]
          [] f = "org_product" -> row[5]
          [] f = "mode"        -> IF row[5] \in {"EP", "BP"} THEN "Air"
                                  ELSE IF row[5] \in {"ES", "BS", "GP"}
                                       THEN "Ground" ELSE "Unknown"

\* The label data column c carries at a column-side level.
ColLabel(c, f) ==
    CASE f = "type_"      -> csv[2][5 + c]
      [] f = "des_zone"   -> csv[3][5 + c]
      [] f = "des_region" -> csv[4][5 + c]
      [] f = "des_city"   -> csv[5][5 + c]
      [] f = "des_branch" -> csv[6][5 + c]

RowMatches(r) ==
    \A f \in RowSideFilters : fsArgs[f] # None => RowLabel(r, f) = fsArgs[f]
ColMatches(c) ==
    \A f \in ColSideFilters : fsArgs[f] # None => ColLabel(c, f) = fsArgs[f]

\* The cells the claims say contribute.
Matching == {rc \in (1..2) \X (1..2) : RowMatches(rc[1]) /\ ColMatches(rc[2])}

CellText(rc) == csv[6 + rc[1]][5 + rc[2]]
IsNumeral(t) == t \in {"1", "2", "4", "8", "10", "20", "30", "40"}
NumeralOf(t) == CASE t = "1" -> 1 [] t = "2" -> 2 [] t = "4" -> 4
                  [] t = "8" -> 8 [] t = "10" -> 10 [] t = "20" -> 20
                  [] t = "30" -> 30 [] t = "40" -> 40 [] OTHER -> 0

\* The sum of the numeric cells among a set of cells (1, 2, 4, 8: the sum
\* names the set).
NumericSum(cells) ==
    (IF <<1, 1>> \in cells THEN NumeralOf(CellText(<<1, 1>>)) ELSE 0) +
    (IF <<1, 2>> \in cells THEN NumeralOf(CellText(<<1, 2>>)) ELSE 0) +
    (IF <<2, 1>> \in cells THEN NumeralOf(CellText(<<2, 1>>)) ELSE 0) +
    (IF <<2, 2>> \in cells THEN NumeralOf(CellText(<<2, 2>>)) ELSE 0)

\* C1: on a file of the documented schema, for every combination of set and
\* unset filters, the cells that contribute to the returned sum are exactly
\* those whose row equals the given value on all set row-side levels and whose
\* column equals the given value on all set column-side levels: when these
\* cells are all numeric the result is their sum, and a cell outside them
\* never affects the result.
C1_FilterIff ==
    (Called /\ layout = ExpectedLayout) =>
        /\ (\A rc \in Matching : IsNumeral(CellText(rc)))
               => fsResult = Num(NumericSum(Matching))
        /\ fsResult.kind = "nan"
               => \E rc \in Matching : ~IsNumeral(CellText(rc))

\* C1 witness: a call with a row filter and a column filter set that keeps
\* one row and one column out of two, and returns that cell.
C1_Witness ==
    /\ Called /\ layout = ExpectedLayout
    /\ \E f \in RowSideFilters : fsArgs[f] # None
    /\ \E f \in ColSideFilters : fsArgs[f] # None
    /\ Matching = {<<1, 1>>}
    /\ fsResult = Num(1)

\* C2 (the claim as stated): whenever a surviving cell is non-numeric, the
\* result is still the sum of the numeric surviving cells, never
\* not-a-number.
C2_NaNSkipped ==
    (Called /\ layout = ExpectedLayout
       /\ \E rc \in Matching : ~IsNumeral(CellText(rc)))
        => fsResult = Num(NumericSum(Matching))

\* C6 (the claim as stated): on a file whose header row or column count is
\* not the expected one, the call fails with a structural error; it never
\* returns a number (or not-a-number) computed from misaligned regions.
C6_StructuralError ==
    (Called /\ layout # ExpectedLayout) => fsResult.kind = "error"

(***************************************************************************)
(* find_elbow on its own: every x and y of up to MaxPoints small integers. *)
(***************************************************************************)
MaxPoints == 3
MaxX == 2
MaxY == 3

ElbowInit ==
    /\ \E n \in 0..MaxPoints :
          /\ ex \in [1..n -> 0..MaxX]
          /\ ey \in [1..n -> 0..MaxY]
    /\ elbowRes = NoElbow
    /\ FilterIdle
    /\ BagIdle
    /\ FlowIdle

\* One call find_elbow(x, y).
FindElbow ==
    /\ ~elbowRes.called
    /\ \E i \in find_elbow(ex, ey) :
          elbowRes' = [NoElbow EXCEPT !.called = TRUE, !.idx = i,
                         !.invalid = DividesByZero(ex, ey),
                         !.distances = DistancesEvaluated(ex)]
    /\ UNCHANGED <<ex, ey, fsVars, bagVars, flowVars>>

ElbowNext == FindElbow

SpecElbow == ElbowInit /\ [][ElbowNext]_vars

(***************************************************************************)
(* float64 arithmetic, as numpy computes find_elbow: every operation       *)
(* returns the exact result rounded to a mantissa of 53 bits, to nearest,  *)
(* ties to even.  A natural number is a sequence of limbs (digits to the  *)
(* base 2^15, lowest first, no leading zero limb), so that a mantissa and  *)
(* a product of two mantissas can be held exactly; a float is             *)
(* s * m * 2^e with s the sign, m a natural below 2^53 and e an integer.   *)
(* The values of find_elbow stay far from overflow and underflow.          *)
(***************************************************************************)
LimbBits == 15
LimbBase == Pow2(LimbBits)
Mantissa64 == 53

RECURSIVE BTrim(_)
BTrim(a) ==
    IF a # <<>> /\ a[Len(a)] = 0 THEN BTrim(SubSeq(a, 1, Len(a) - 1)) ELSE a

Limb(a, i) == IF i <= Len(a) THEN a[i] ELSE 0

\* a + b + c, from limb i on (c the carry)
RECURSIVE BAddFrom(_, _, _, _)
BAddFrom(a, b, i, c) ==
    IF i > Len(a) /\ i > Len(b) THEN (IF c = 0 THEN <<>> ELSE <<c>>)
    ELSE LET t == Limb(a, i) + Limb(b, i) + c
         IN  <<t % LimbBase>> \o BAddFrom(a, b, i + 1, t \div LimbBase)
BAdd(a, b) == BAddFrom(a, b, 1, 0)

\* a - b - c for a >= b, from limb i on (c the borrow)
RECURSIVE BSubFrom(_, _, _, _)
BSubFrom(a, b, i, c) ==
    IF i > Len(a) THEN <<>>
    ELSE LET t == a[i] - Limb(b, i) - c
         IN  <<IF t < 0 THEN t + LimbBase ELSE t>>
             \o BSubFrom(a, b, i + 1, IF t < 0 THEN 1 ELSE 0)
BSub(a, b) == BTrim(BSubFrom(a, b, 1, 0))

\* -1, 0 or 1 as a < b, a = b or a > b
RECURSIVE BCmpFrom(_, _, _)
BCmpFrom(a, b, i) ==
    IF i = 0 THEN 0
    ELSE IF a[i] < b[i] THEN -1
    ELSE IF a[i] > b[i] THEN 1
    ELSE BCmpFrom(a, b, i - 1)
BCmp(a, b) ==
    IF Len(a) < Len(b) THEN -1
    ELSE IF Len(a) > Len(b) THEN 1
    ELSE BCmpFrom(a, b, Len(a))

\* a * k + c for one limb k
RECURSIVE BMulLimbFrom(_, _, _, _)
BMulLimbFrom(a, k, i, c) ==
    IF i > Len(a) THEN (IF c = 0 THEN <<>> ELSE <<c>>)
    ELSE LET t == a[i] * k + c
         IN  <<t % LimbBase>> \o BMulLimbFrom(a, k, i + 1, t \div LimbBase)
BMulLimb(a, k) == BTrim(BMulLimbFrom(a, k, 1, 0))

\* a * LimbBase^n
BShiftLimbs(a, n) == IF a = <<>> THEN <<>> ELSE [i \in 1..n |-> 0] \o a

RECURSIVE BMulFrom(_, _, _)
BMulFrom(a, b, i) ==
    IF i > Len(b) THEN <<>>
    ELSE BAdd(BShiftLimbs(BMulLimb(a, b[i]), i - 1), BMulFrom(a, b, i + 1))
BMul(a, b) == BMulFrom(a, b, 1)

\* a * 2^k
BShl(a, k) == BShiftLimbs(BMulLimb(a, Pow2(k % LimbBits)), k \div LimbBits)

\* a \div d for d a power of two up to the limb base, from limb i down (r the
\* remainder carried down)
RECURSIVE BDivLimbFrom(_, _, _, _)
BDivLimbFrom(a, d, i, r) ==
    IF i = 0 THEN <<>>
    ELSE LET t == r * LimbBase + a[i]
         IN  BDivLimbFrom(a, d, i - 1, t % d) \o <<t \div d>>

\* a \div 2^k
BShr(a, k) ==
    LET n == k \div LimbBits
    IN  IF n >= Len(a) THEN <<>>
        ELSE LET top == SubSeq(a, n + 1, Len(a))
             IN  BTrim(BDivLimbFrom(top, Pow2(k % LimbBits), Len(top), 0))

BBitLen(a) ==
    IF a = <<>> THEN 0 ELSE LimbBits * (Len(a) - 1) + BitLength(a[Len(a)])

\* bit i of a (bit 0 the lowest)
BBit(a, i) == (Limb(a, i \div LimbBits + 1) \div Pow2(i % LimbBits)) % 2

BIsOdd(a) == a # <<>> /\ a[1] % 2 = 1

\* Long division of n by d, one bit of n at a time: qr is the quotient and
\* the remainder of the bits of n above bit i, the result those of the bits
\* from bit i up.
DivBit(n, d, i, qr) ==
    IF i < 0 THEN qr
    ELSE LET r2 == BAddFrom(qr[2], qr[2], 1, BBit(n, i))
         IN  IF BCmp(r2, d) >= 0
             THEN <<BAddFrom(qr[1], qr[1], 1, 1), BSub(r2, d)>>
             ELSE <<BAddFrom(qr[1], qr[1], 1, 0), r2>>
DivByte(n, d, i, qr) ==
    DivBit(n, d, i - 7, DivBit(n, d, i - 6, DivBit(n, d, i - 5, DivBit(n, d, i - 4,
    DivBit(n, d, i - 3, DivBit(n, d, i - 2, DivBit(n, d, i - 1, DivBit(n, d, i, qr))))))))
RECURSIVE BDivModFrom(_, _, _, _)
BDivModFrom(n, d, i, qr) ==
    IF i < 0 \/ Len(qr) # 2 THEN qr
    ELSE BDivModFrom(n, d, i - 8, DivByte(n, d, i, qr))
\* <<n \div d, n % d>> (the bits of n above bit BBitLen(n) - BBitLen(d) are
\* a number below d)
BDivMod(n, d) ==
    LET i == BBitLen(n) - BBitLen(d)
    IN  IF i < 0 THEN <<<<>>, n>> ELSE BDivModFrom(n, d, i, <<<<>>, BShr(n, i + 1)>>)

\* The integer square root of n, one bit at a time from the highest: r holds
\* the bits of the root above bit i.
SqrtBit(n, i, r) ==
    IF i < 0 THEN r
    ELSE LET t == BAdd(r, BShl(<<1>>, i))
         IN  IF BCmp(BMul(t, t), n) <= 0 THEN t ELSE r
SqrtByte(n, i, r) ==
    SqrtBit(n, i - 7, SqrtBit(n, i - 6, SqrtBit(n, i - 5, SqrtBit(n, i - 4,
    SqrtBit(n, i - 3, SqrtBit(n, i - 2, SqrtBit(n, i - 1, SqrtBit(n, i, r))))))))
RECURSIVE BSqrtFrom(_, _, _)
BSqrtFrom(n, i, r) ==
    IF i < 0 \/ Len(r) < 0 THEN r
    ELSE BSqrtFrom(n, i - 8, SqrtByte(n, i, r))
BSqrt(n) == BSqrtFrom(n, (BBitLen(n) + 1) \div 2, <<>>)

\* An exact value s * m * 2^e, and its float64: round to nearest, ties to
\* even.
Exact(s, m, e) == [s |-> IF m = <<>> THEN 1 ELSE s, m |-> m, e |-> e]
F64Round(v) ==
    LET L == BBitLen(v.m)
    IN  IF L <= Mantissa64 THEN v
        ELSE LET k    == L - Mantissa64
                 q    == BShr(v.m, k)
                 r    == BSub(v.m, BShl(q, k))
                 c    == BCmp(r, BShl(<<1>>, k - 1))
                 up   == c > 0 \/ (c = 0 /\ BIsOdd(q))
             IN  Exact(v.s, IF up THEN BAdd(q, <<1>>) ELSE q, v.e + k)

\* float(n) for a small integer n
F64(n) == IF n < 0 THEN Exact(-1, <<-n>>, 0)
          ELSE IF n = 0 THEN Exact(1, <<>>, 0) ELSE Exact(1, <<n>>, 0)

ExNeg(a) == Exact(-a.s, a.m, a.e)
ExAdd(a, b) ==
    LET e  == IF a.e < b.e THEN a.e ELSE b.e
        ma == BShl(a.m, a.e - e)
        mb == BShl(b.m, b.e - e)
    IN  IF a.s = b.s THEN Exact(a.s, BAdd(ma, mb), e)
        ELSE IF BCmp(ma, mb) >= 0 THEN Exact(a.s, BSub(ma, mb), e)
        ELSE Exact(b.s, BSub(mb, ma), e)
ExMul(a, b) == Exact(a.s * b.s, BMul(a.m, b.m), a.e + b.e)

F64Add(a, b) == F64Round(ExAdd(a, b))
F64Sub(a, b) == F64Round(ExAdd(a, ExNeg(b)))
F64Mul(a, b) == F64Round(ExMul(a, b))
\* a * b + c with a single rounding (a fused multiply-add)
F64Fma(a, b, c) == F64Round(ExAdd(ExMul(a, b), c))

\* a / b for b # 0: the quotient to 53 + 3 bits or one more, the lowest bit
\* standing for a non-zero remainder, then rounded.
F64Div(a, b) ==
    IF a.m = <<>> THEN a
    ELSE LET k  == Mantissa64 + 3 + BBitLen(b.m) - BBitLen(a.m)
             qr == BDivMod(BShl(a.m, k), b.m)
             m  == BAddFrom(qr[1], qr[1], 1, IF qr[2] = <<>> THEN 0 ELSE 1)
         IN  F64Round(Exact(a.s * b.s, m, a.e - b.e - k - 1))

\* sqrt(a) for a >= 0: the root of the mantissa scaled to an even exponent,
\* the lowest bit standing for an inexact root, then rounded.
F64Sqrt(a) ==
    IF a.m = <<>> THEN a
    ELSE LET odd == (a.e + 2048) % 2 = 1
             e2  == IF odd THEN a.e - 1 ELSE a.e
             m2  == BShl(IF odd THEN BAdd(a.m, a.m) ELSE a.m, 2 * (Mantissa64 + 3))
             r   == BSqrt(m2)
             m   == BAddFrom(r, r, 1, IF BCmp(BMul(r, r), m2) = 0 THEN 0 ELSE 1)
         IN  F64Round(Exact(1, m, (e2 - 2 * (Mantissa64 + 3)) \div 2 - 1))

\* a < b
F64Less(a, b) ==
    LET d == ExAdd(a, ExNeg(b)) IN d.m # <<>> /\ d.s = -1

\* Not-a-number, the value of 0.0 / 0.0.
NaN64 == [s |-> 0, m |-> <<>>, e |-> 0]
IsNaN64(v) == v.s = 0

\* How the build computes a dot product of two pairs: both products rounded
\* and added, or one product rounded and the other fused into the addition.
Builds == {"plain", "fused_first", "fused_second"}

\* np.dot(a, b) on two float64 pairs
Dot64(a, b, build) ==
    IF build = "plain" THEN F64Add(F64Mul(a[1], b[1]), F64Mul(a[2], b[2]))
    ELSE IF build = "fused_first" THEN F64Fma(a[1], b[1], F64Mul(a[2], b[2]))
    ELSE F64Fma(a[2], b[2], F64Mul(a[1], b[1]))

\* np.linalg.norm(v): sqrt(v.dot(v))
Norm64(v, build) == F64Sqrt(Dot64(v, v, build))

Sub64(p, q) == <<F64Sub(p[1], q[1]), F64Sub(p[2], q[2])>>

\* np.array([x[i], y[i]]), i counted from 0
Point64(x, y, i) == <<F64(x[i + 1]), F64(y[i + 1])>>

\* line_vec = (p2 - p1) / np.linalg.norm(p2 - p1); when the norm is 0.0 both
\* quotients are 0.0 / 0.0.
LineVec64(x, y, build) ==
    LET d == Sub64(Point64(x, y, Len(x) - 1), Point64(x, y, 0))
        n == Norm64(d, build)
    IN  IF n.m = <<>> THEN <<NaN64, NaN64>>
        ELSE <<F64Div(d[1], n), F64Div(d[2], n)>>

\* One turn of the loop: the distance appended for point i (from 0); every
\* operation on not-a-number gives not-a-number.
Distance64(x, y, i, line_vec, build) ==
    LET p1         == Point64(x, y, 0)
        p          == Point64(x, y, i)
        proj_len   == Dot64(Sub64(p, p1), line_vec, build)
        proj_point == <<F64Add(p1[1], F64Mul(proj_len, line_vec[1])),
                        F64Add(p1[2], F64Mul(proj_len, line_vec[2]))>>
    IN  IF IsNaN64(line_vec[1]) THEN NaN64
        ELSE Norm64(Sub64(p, proj_point), build)

\* (the last index of maximal distance instead of the first)
Argmax64_Last(distances) ==
    LET I == DOMAIN distances
        M == {i \in I : \A j \in I : ~F64Less(distances[i], distances[j])}
    IN  (CHOOSE i \in M : \A j \in M : j <= i) - 1

\* int(np.argmax(distances)): the first not-a-number if there is one, else
\* the first index (from 0) whose distance no other exceeds.
Argmax64(distances) ==
    LET I == DOMAIN distances
        N == {i \in I : IsNaN64(distances[i])}
        M == {i \in I : \A j \in I : ~F64Less(distances[i], distances[j])}
    IN  FirstOf(IF N # {} THEN N ELSE M) - 1

(***************************************************************************)
(* find_elbow in float64, one turn of its loop per step, on the arguments  *)
(* the optimal selector passes and on a few others, followed by a second   *)
(* call on the translated arguments.                                       *)
(***************************************************************************)
MaxBranches64 == 4
Pcts64 == {10, 20, 30, 40}
MaxShift == 1

\* np.arange(1, n + 1)
Arange(n) == [i \in 1..n |-> i]

\* x + dx as numpy adds a constant to every element.
Translated(x, d) == [i \in DOMAIN x |-> x[i] + d]

\* The percentages of a subset after sort_values(ascending=False).
SortedPcts ==
    {p \in UNION {[1..n -> Pcts64] : n \in 1..MaxBranches64} :
        \A i \in 1..(Len(p) - 1) : p[i] >= p[i + 1]}

\* x and y as build_optimal_branches passes them.
SelectorInputs == {<<Arange(Len(p)), CumSum(p)>> : p \in SortedPcts}

\* x and y of direct calls.
DirectInputs ==
    { <<<<>>, <<>>>>,
      <<<<1, 2, 3, 4, 5>>, <<50, 75, 85, 92, 100>>>>,
      <<<<1, 2>>, <<1, 2>>>>,
      <<<<1, 2>>, <<0, 1>>>>,
      <<<<1, 1>>, <<5, 5>>>> }

Elbow64Init ==
    /\ \E in \in SelectorInputs \cup DirectInputs : ex = in[1] /\ ey = in[2]
    /\ \E b \in Builds : elbowRes = [NoElbow EXCEPT !.build = b]
    /\ FilterIdle
    /\ BagIdle
    /\ FlowIdle

\* A call is running: the first one, or the second one on x + dx, y + dy.
Running64 == ~elbowRes.called \/ (elbowRes.again /\ ~elbowRes.twice)
CallX == IF elbowRes.again THEN Translated(ex, elbowRes.shift[1]) ELSE ex
CallY == IF elbowRes.again THEN Translated(ey, elbowRes.shift[2]) ELSE ey

\* p1, p2 and line_vec, once before the loop.
ChordDirection ==
    /\ Running64
    /\ ~TooFew(CallX)
    /\ elbowRes.line_vec = <<>>
    /\ elbowRes' = [elbowRes EXCEPT
                      !.line_vec = LineVec64(CallX, CallY, elbowRes.build)]
    /\ UNCHANGED <<ex, ey, fsVars, bagVars, flowVars>>

\* distances.append(np.linalg.norm(p - proj_point))
AppendDistance ==
    /\ Running64
    /\ elbowRes.line_vec # <<>>
    /\ Len(elbowRes.dist64) < Len(CallX)
    /\ elbowRes' = [elbowRes EXCEPT !.dist64 =
                      Append(@, Distance64(CallX, CallY, Len(@),
                                           elbowRes.line_vec, elbowRes.build))]
    /\ UNCHANGED <<ex, ey, fsVars, bagVars, flowVars>>

\* return 0 on fewer than 2 points, return int(np.argmax(distances)) after
\* the loop.
Return64 ==
    /\ Running64
    /\ TooFew(CallX)
       \/ (elbowRes.line_vec # <<>> /\ Len(elbowRes.dist64) = Len(CallX))
    /\ LET i == IF TooFew(CallX) THEN 0 ELSE Argmax64(elbowRes.dist64)
       IN  elbowRes' =
             IF elbowRes.again
             THEN [elbowRes EXCEPT !.twice = TRUE, !.idx2 = i]
             ELSE [elbowRes EXCEPT !.called = TRUE, !.idx = i,
                     !.invalid = DividesByZero(ex, ey),
                     !.distances = Len(elbowRes.dist64)]
    /\ UNCHANGED <<ex, ey, fsVars, bagVars, flowVars>>

\* The second call starts: find_elbow(x + dx, y + dy).
CallAgain(dx, dy) ==
    /\ elbowRes.called /\ ~elbowRes.again
    /\ elbowRes' = [elbowRes EXCEPT !.again = TRUE, !.shift = <<dx, dy>>,
                                    !.line_vec = <<>>, !.dist64 = <<>>]
    /\ UNCHANGED <<ex, ey, fsVars, bagVars, flowVars>>

\* One call.
Elbow64Next == ChordDirection \/ AppendDistance \/ Return64

SpecElbow64 == Elbow64Init /\ [][Elbow64Next]_vars

\* A call and a second call on the translated arguments.
Elbow64TwiceNext ==
    \/ ChordDirection
    \/ AppendDistance
    \/ Return64
    \/ \E dx \in 0..MaxShift, dy \in 0..MaxShift : CallAgain(dx, dy)

SpecElbow64Twice == Elbow64Init /\ [][Elbow64TwiceNext]_vars

\* The perpendicular distance of point i (0-based) from the line through the
\* first and the last point, as |cross product| (the distance times the
\* length of the chord).
CrossAbs(i) ==
    LET lx == ex[Len(ex)] - ex[1]
        ly == ey[Len(ey)] - ey[1]
        c  == (ex[i + 1] - ex[1]) * ly - (ey[i + 1] - ey[1]) * lx
    IN  IF c < 0 THEN -c ELSE c

ProperChord ==
    Len(ex) >= 2 /\ (ex[1] # ex[Len(ex)] \/ ey[1] # ey[Len(ey)])

\* C4 (the claim as stated): with at least two points (and a chord of
\* non-zero length), find_elbow returns the index of maximal perpendicular
\* distance from the chord, and the smallest such index when several attain
\* the maximum.
C4_FirstFarthest ==
    (elbowRes.called /\ ProperChord) =>
        /\ \A j \in 0..(Len(ex) - 1) : CrossAbs(j) <= CrossAbs(elbowRes.idx)
        /\ \A j \in 0..(Len(ex) - 1) :
              CrossAbs(j) = CrossAbs(elbowRes.idx) => elbowRes.idx <= j

\* C5 (the claim as stated): on a degenerate chord (at least two points,
\* first and last point identical) the call is guarded: no division by zero
\* is evaluated, and index 0 is returned.
C5_DegenerateGuarded ==
    (elbowRes.called /\ Len(ex) >= 2 /\ ~ProperChord) =>
        /\ ~elbowRes.invalid
        /\ elbowRes.idx = 0

(***************************************************************************)
(* The bagging dashboard (src/bags.py): the tables are loaded once, and    *)
(* every move of a threshold slider runs the script again, which rebuilds  *)
(* the BagSummary and the OptimalSet from the loaded tables.               *)
(***************************************************************************)
\* st.slider("Volume Threshold", 0, 100, 25) / ("Billed Wt Threshold", .., 35)
DefaultVolThresh == 25
DefaultWtThresh == 35

\* thresholds = {"Volume": vol_thresh, "Billed Wt": wt_thresh}
Thresholds(vol, wt) == ("Volume" :> vol) @@ ("Billed Wt" :> wt)

\* The slider positions the model draws from: the defaults, below and above.
VolStops == {0, 25, 26}
WtStops == {35, 36}
\* Percentages are 0..MaxPct.
MaxPct == 2

BagCols == << <<"A", "1">>, <<"A", "2">>, <<"B", "1">> >>

AbsRow(key, vals) ==
    [Region |-> key[1], Service_Type |-> key[2], Type |-> key[3],
     Total |-> SumSeq(vals), vals |-> vals]
PctRow(key, vals) ==
    [Region |-> key[1], Service_Type |-> key[2], Type |-> key[3],
     vals |-> vals]

\* The values of the first row's branches: none, some or all of them at or
\* above a slider position.
FirstRowValues ==
    { <<0, 0, 0>>, <<25, 25, 25>>, <<40, 40, 40>>, <<40, 25, 0>>,
      <<0, 25, 40>>, <<25, 0, 40>>, <<40, 0, 25>>, <<0, 40, 0>> }

\* The second row of the tables: a Type with a slider of its own, or one the
\* threshold mapping does not list.
SecondRows ==
    { [key |-> <<"AMD", "Air", "Billed Wt">>, vals |-> <<35, 0, 40>>,
       pcts |-> <<0, 0, 2>>],
      [key |-> <<"AMD", "Air", "Pieces">>, vals |-> <<0, 25, 40>>,
       pcts |-> <<3, 2, 0>>] }

\* The script from the thresholds on (bags.py 254-317).
Recompute(th) ==
    /\ thresholds' = th
    /\ df_summary' = build_bag_summary(DfMerge(df_abs, df_pct), th)
    /\ df_optimal' \in build_optimal_branches(df_summary', Melt(df_pct))

BagInit ==
    /\ \E v \in FirstRowValues, q \in [1..3 -> 0..MaxPct],
          r2 \in SecondRows :
          /\ df_abs = [cols |-> BagCols,
                       rows |-> <<AbsRow(<<"AMD", "Air", "Volume">>, v),
                                  AbsRow(r2.key, r2.vals)>>]
          /\ df_pct = [cols |-> BagCols,
                       rows |-> <<PctRow(<<"AMD", "Air", "Volume">>, q),
                                  PctRow(r2.key, r2.pcts)>>]
    /\ thresholds = Thresholds(DefaultVolThresh, DefaultWtThresh)
    /\ df_summary = build_bag_summary(DfMerge(df_abs, df_pct), thresholds)
    /\ df_optimal \in build_optimal_branches(df_summary, Melt(df_pct))
    /\ built = TRUE
    /\ mapping = <<>> /\ df_fd = NoSorting
    /\ FilterIdle
    /\ ElbowIdle
    /\ FlowIdle

\* The user moves a slider: the script runs again with the new thresholds.
MoveSlider(vol, wt) ==
    /\ Thresholds(vol, wt) # thresholds
    /\ Recompute(Thresholds(vol, wt))
    /\ UNCHANGED <<df_abs, df_pct, built, mapping, df_fd, fsVars, elbowVars,
                   flowVars>>

BagNext == \E vol \in VolStops, wt \in WtStops : MoveSlider(vol, wt)

SpecBag == BagInit /\ [][BagNext]_vars

(***************************************************************************)
(* Claims about the BagSummary and the OptimalSet.  They are stated on the *)
(* wide tables as loaded: the row of df_abs and the row of df_pct of a     *)
(* group, and the branch columns.                                          *)
(***************************************************************************)
RECURSIVE SetSum(_, _)
SetSum(S, f) ==
    IF S = {} THEN 0
    ELSE LET c == CHOOSE c \in S : TRUE IN f[c] + SetSum(S \ {c}, f)

AbsRowOf(key) == CHOOSE r \in Range(df_abs.rows) : KeyOf(r) = key
PctRowOf(key) == CHOOSE r \in Range(df_pct.rows) : KeyOf(r) = key
GroupKeySet == {KeyOf(r) : r \in Range(df_abs.rows)}

\* The threshold the claims name for a Type: its entry, 0 when it has none.
ClaimedThreshold(type_) ==
    IF type_ = "Volume" THEN thresholds["Volume"]
    ELSE IF type_ = "Billed Wt" THEN thresholds["Billed Wt"]
    ELSE 0

\* The branch columns of a group whose Value is at or above the threshold.
Survivors(key) ==
    {c \in DOMAIN df_abs.cols : AbsRowOf(key).vals[c] >= ClaimedThreshold(key[3])}

SummaryRows(key) == {r \in Range(df_summary) : KeyOf(r) = key}
OptimalRows(key) == {r \in Range(df_optimal) : KeyOf(r) = key}

Listed(row) == Range(BranchesOf(row.Branches))

\* C7: for every (Region, Service_Type, Type) group, the BagSummary row lists
\* exactly the branches with Value >= threshold (the threshold being the entry
\* of the group's Type, or 0 when the Type has none; a Value equal to the
\* threshold is selected), Num_Branches is their count and
\* Cumulative_Percentage is the sum of their Percentage.
C7_ThresholdBagging ==
    \A key \in GroupKeySet : \A row \in SummaryRows(key) :
        /\ Listed(row) = {df_abs.cols[c] : c \in Survivors(key)}
        /\ row.Num_Branches = Cardinality(Survivors(key))
        /\ row.Cumulative_Percentage = SetSum(Survivors(key), PctRowOf(key).vals)

\* C7 witness: at the Volume threshold 25 a group with values 40, 25 and 0
\* keeps the first two (25 = 25 is selected), and a group of a Type without a
\* threshold keeps all its branches, the one of value 0 included.
C7_Witness ==
    /\ thresholds["Volume"] = 25
    /\ \E row \in Range(df_summary) :
          /\ row.Type = "Volume" /\ AbsRowOf(KeyOf(row)).vals = <<40, 25, 0>>
          /\ row.Num_Branches = 2
          /\ row.Cumulative_Percentage > 0
    /\ \E row \in Range(df_summary) :
          row.Type = "Pieces" /\ row.Num_Branches = 3

\* C8: raising the thresholds (same flow records, each Type's threshold at
\* least what it was) never increases a group's Num_Branches or
\* Cumulative_Percentage, and its branch list afterwards is a subset of the
\* list before.
C8_Monotone ==
    [][ (\A t \in DOMAIN thresholds : thresholds[t] <= thresholds'[t]) =>
          \A key \in GroupKeySet :
            \A before \in SummaryRows(key) :
              \A after \in {r \in Range(df_summary') : KeyOf(r) = key} :
                /\ after.Num_Branches <= before.Num_Branches
                /\ after.Cumulative_Percentage <= before.Cumulative_Percentage
                /\ Listed(after) \subseteq Listed(before) ]_vars

\* C8 witness: the Volume threshold has been raised above its default and a
\* branch that the default keeps (value 25) has dropped out of the summary.
C8_Witness ==
    /\ thresholds["Volume"] > DefaultVolThresh
    /\ \E row \in Range(df_summary) :
          /\ row.Type = "Volume"
          /\ AbsRowOf(KeyOf(row)).vals = <<40, 25, 0>>
          /\ row.Num_Branches = 1
          /\ Listed(row) = {<<"A", "1">>}

\* C9: for every row of the OptimalSet, the optimal branches are a subset of
\* the branches listed in the group's BagSummary row, and
\* 1 <= Optimal_Num_Branches <= Num_Branches of that row.
C9_OptimalSubset ==
    \A opt \in Range(df_optimal) :
        \E bag \in SummaryRows(KeyOf(opt)) :
            /\ Listed(opt) \subseteq Listed(bag)
            /\ 1 <= opt.Optimal_Num_Branches
            /\ opt.Optimal_Num_Branches <= bag.Num_Branches

\* C9 witness: a group the threshold has cut to two of its three branches,
\* the dropped one having a positive Percentage, with one optimal branch.
C9_Witness ==
    \E opt \in Range(df_optimal) : \E bag \in SummaryRows(KeyOf(opt)) :
        /\ opt.Type = "Volume"
        /\ bag.Num_Branches = 2
        /\ opt.Optimal_Num_Branches = 1
        /\ \E c \in DOMAIN df_abs.cols :
              /\ df_abs.cols[c] \notin Listed(bag)
              /\ PctRowOf(KeyOf(opt)).vals[c] > 0

\* The Percentage of a branch of a group, by its code.
PctOf(key, code) ==
    LET c == CHOOSE c \in DOMAIN df_pct.cols : df_pct.cols[c] = code
    IN  PctRowOf(key).vals[c]

\* The orders of a set of branch codes by non-increasing Percentage.
DescendingOrders(key, codes) ==
    LET n == Cardinality(codes)
    IN  {o \in [1..n -> codes] :
            /\ \A i, j \in 1..n : i # j => o[i] # o[j]
            /\ \A i \in 1..(n - 1) : PctOf(key, o[i]) >= PctOf(key, o[i + 1])}

\* The running sum of the Percentage along an order, at rank k.
CumulativeAt(key, o, k) ==
    SetSum(1..k, [i \in 1..Len(o) |-> PctOf(key, o[i])])

\* C10: for each BagSummary row with a non-empty branch list there is an
\* OptimalSet row, and for an order of the listed branches by descending
\* Percentage and an index e that find_elbow returns on (ranks 1..N, the
\* running sums), Optimal_Num_Branches = e + 1,
\* Optimal_Cumulative_Percentage = the running sum at e, and Branches = the
\* first e + 1 codes of the order.
C10_OptimalRow ==
    \A bag \in Range(df_summary) :
        Listed(bag) # {} =>
          /\ OptimalRows(KeyOf(bag)) # {}
          /\ \A opt \in OptimalRows(KeyOf(bag)) :
               \E o \in DescendingOrders(KeyOf(bag), Listed(bag)) :
                 \E e \in find_elbow(
                            [i \in 1..Len(o) |-> i],
                            [i \in 1..Len(o) |-> CumulativeAt(KeyOf(bag), o, i)]) :
                    /\ opt.Optimal_Num_Branches = e + 1
                    /\ opt.Optimal_Cumulative_Percentage
                         = CumulativeAt(KeyOf(bag), o, e + 1)
                    /\ BranchesOf(opt.Branches) = SubSeq(o, 1, e + 1)

\* C10 witness: a group of three listed branches with Percentages 2, 1, 0 in
\* column order whose elbow is the second rank: two optimal branches, 3%.
C10_Witness ==
    \E opt \in Range(df_optimal) : \E bag \in SummaryRows(KeyOf(opt)) :
        /\ opt.Type = "Volume"
        /\ bag.Num_Branches = 3
        /\ PctRowOf(KeyOf(opt)).vals = <<2, 1, 0>>
        /\ opt.Optimal_Num_Branches = 2
        /\ opt.Optimal_Cumulative_Percentage = 3
        /\ BranchesOf(opt.Branches) = << <<"A", "1">>, <<"A", "2">> >>

(***************************************************************************)
(* The flow analysis of one run of the script (bags.py 643-645): the flow   *)
(* matrices, then the receiving vectors, one loop iteration per step.       *)
(***************************************************************************)
FlowCols == << <<"A", "1">>, <<"A", "2">>, <<"A", "3">>, <<"B", "1">>,
               <<"C", "1">>, <<"Z", "9">> >>

\* The rows of df_abs: two Volume rows of different regions and a Billed Wt
\* row, with empty and zero cells, a branch of a region that is no origin
\* (C1) and a branch whose letter maps to no region (Z9).
FirstFlowRows  == { <<1, 1, 8, 2, 3, 1>>, <<1, 2, 1, 2, 3, 1>>,
                    <<0, Missing, 2, 0, 1, 1>>, <<8, 0, 0, 1, 0, 0>> }
SecondFlowRows == { <<1, 0, 0, 1, 0, Missing>>, <<2, 1, 0, 3, 0, 0>>,
                    <<1, 1, 0, 1, 0, 0>> }
ThirdFlowRow   == <<3, 0, 2, 1, 0, 0>>

FlowKeys == << <<"AMD", "Air", "Volume">>, <<"BLR", "Air", "Volume">>,
               <<"AMD", "Air", "Billed Wt">> >>

FlowRow(key, vals) ==
    [Region |-> key[1], Service_Type |-> key[2], Type |-> key[3],
     Total |-> 0, vals |-> vals]

\* A row of an optimal-set table with the given branch list.
GivenOptimalRow(key, codes) ==
    [Region |-> key[1], Service_Type |-> key[2], Type |-> key[3],
     Optimal_Num_Branches |-> Len(codes),
     Optimal_Cumulative_Percentage |-> 0,
     Branches |-> Join(codes)]

\* The optimal-set tables: per key no row or a row with one of two branch
\* lists, which need not come from the table's own pipeline.
OptimalChoices ==
    << { <<>>, << <<"A", "1">>, <<"A", "3">> >>,
         << <<"A", "2">>, <<"B", "1">>, <<"Z", "9">> >> },
       { <<>>, << <<"A", "1">> >>, << <<"B", "1">>, <<"A", "2">> >> },
       { <<>>, << <<"A", "1">> >> } >>

RECURSIVE OptimalTable(_, _)
OptimalTable(choice, k) ==
    IF k > Len(FlowKeys) THEN <<>>
    ELSE (IF choice[k] = <<>> THEN <<>>
          ELSE <<GivenOptimalRow(FlowKeys[k], choice[k])>>)
         \o OptimalTable(choice, k + 1)

FlowInit ==
    /\ \E v1 \in FirstFlowRows, v2 \in SecondFlowRows :
          df_abs = [cols |-> FlowCols,
                    rows |-> <<FlowRow(FlowKeys[1], v1),
                               FlowRow(FlowKeys[2], v2),
                               FlowRow(FlowKeys[3], ThirdFlowRow)>>]
    /\ \E c1 \in OptimalChoices[1], c2 \in OptimalChoices[2],
          c3 \in OptimalChoices[3] :
          df_optimal = OptimalTable(<<c1, c2, c3>>, 1)
    /\ type_sel \in {"Volume", "Billed Wt"}
    /\ region_sel = "All India"
    /\ LookupIdle
    /\ flowPc = "flow"
    /\ cursor = <<1, 1>>
    /\ flow_matrix = ZeroMatrix(RegionsOf(df_abs))
    /\ optimal_matrix = ZeroMatrix(RegionsOf(df_abs))
    /\ non_optimal_matrix = ZeroMatrix(RegionsOf(df_abs))
    /\ total_receiving = ZeroSeries(RegionsOf(df_abs))
    /\ optimal_receiving = ZeroSeries(RegionsOf(df_abs))
    /\ non_optimal_receiving = ZeroSeries(RegionsOf(df_abs))
    /\ flowOut = NoFlowOut
    /\ df_pct = EmptyTable /\ thresholds = <<>> /\ df_summary = <<>>
    /\ built = TRUE
    /\ mapping = <<>> /\ df_fd = NoSorting
    /\ FilterIdle
    /\ ElbowIdle

\* Where the script is after the loop iteration that leaves the cursor at
\* cur: in the same loop, or past it.
Advance(cur, next) ==
    IF LoopDone(df_abs, cur)
    THEN flowPc' = next /\ cursor' = <<1, 1>>
    ELSE flowPc' = flowPc /\ cursor' = cur

\* if row['Type'] != type_name: continue
FlowSkipRow ==
    /\ flowPc = "flow"
    /\ df_abs.rows[cursor[1]].Type # type_sel
    /\ Advance(<<cursor[1] + 1, 1>>, "flow_pct")
    /\ UNCHANGED <<flow_matrix, optimal_matrix, non_optimal_matrix,
                   total_receiving, optimal_receiving, non_optimal_receiving,
                   flowOut, type_sel, region_sel, df_flow, df_receiving,
                   lookup, fsVars, elbowVars, bagVars>>

\* One iteration of "for branch in branch_cols" of the flow analysis.
FlowCell ==
    /\ flowPc = "flow"
    /\ df_abs.rows[cursor[1]].Type = type_sel
    /\ LET row == df_abs.rows[cursor[1]]
           branch == df_abs.cols[cursor[2]]
           flow_value == row.vals[cursor[2]]
           origin_region == row.Region
           dest_region == DestRegion(branch)
           isOptimal == branch \in OptimalBranchesFor(
                            df_optimal,
                            <<origin_region, row.Service_Type, type_sel>>)
       IN  IF Accumulates(df_abs, flow_value, branch)
           THEN /\ flow_matrix' =
                     AddAt(flow_matrix, origin_region, dest_region, flow_value)
                /\ optimal_matrix' =
                     AddAt(optimal_matrix, origin_region, dest_region,
                           OptimalShare(isOptimal, flow_value))
                /\ non_optimal_matrix' =
                     AddAt(non_optimal_matrix, origin_region, dest_region,
                           NonOptimalShare(isOptimal, flow_value))
           ELSE UNCHANGED <<flow_matrix, optimal_matrix, non_optimal_matrix>>
    /\ Advance(NextCell(df_abs, cursor[1], cursor[2]), "flow_pct")
    /\ UNCHANGED <<total_receiving, optimal_receiving, non_optimal_receiving,
                   flowOut, type_sel, region_sel, df_flow, df_receiving,
                   lookup, fsVars, elbowVars, bagVars>>

RecvSkipRow ==
    /\ flowPc = "recv"
    /\ df_abs.rows[cursor[1]].Type # type_sel
    /\ Advance(<<cursor[1] + 1, 1>>, "recv_pct")
    /\ UNCHANGED <<flow_matrix, optimal_matrix, non_optimal_matrix,
                   total_receiving, optimal_receiving, non_optimal_receiving,
                   flowOut, type_sel, region_sel, df_flow, df_receiving,
                   lookup, fsVars, elbowVars, bagVars>>

\* One iteration of "for branch in branch_cols" of the receiving analysis.
RecvCell ==
    /\ flowPc = "recv"
    /\ df_abs.rows[cursor[1]].Type = type_sel
    /\ LET row == df_abs.rows[cursor[1]]
           branch == df_abs.cols[cursor[2]]
           flow_value == row.vals[cursor[2]]
           dest_region == DestRegion(branch)
           isOptimal == branch \in OptimalBranchesFor(
                            df_optimal,
                            <<row.Region, row.Service_Type, type_sel>>)
       IN  IF Accumulates(df_abs, flow_value, branch)
           THEN /\ total_receiving' =
                     AddTo(total_receiving, dest_region, flow_value)
                /\ optimal_receiving' =
                     AddTo(optimal_receiving, dest_region,
                           OptimalShare(isOptimal, flow_value))
                /\ non_optimal_receiving' =
                     AddTo(non_optimal_receiving, dest_region,
                           NonOptimalShare(isOptimal, flow_value))
           ELSE UNCHANGED <<total_receiving, optimal_receiving,
                            non_optimal_receiving>>
    /\ Advance(NextCell(df_abs, cursor[1], cursor[2]), "recv_pct")
    /\ UNCHANGED <<flow_matrix, optimal_matrix, non_optimal_matrix,
                   flowOut, type_sel, region_sel, df_flow, df_receiving,
                   lookup, fsVars, elbowVars, bagVars>>

\* The percentage matrices, after the loop of the flow analysis.
FlowPercentages ==
    /\ flowPc = "flow_pct"
    /\ flowOut' = [flowOut EXCEPT
          !.optimal_pct_matrix = PctMatrix(optimal_matrix, flow_matrix),
          !.non_optimal_pct_matrix = PctMatrix(non_optimal_matrix, flow_matrix)]
    /\ flowPc' = "recv"
    /\ UNCHANGED <<cursor, flow_matrix, optimal_matrix, non_optimal_matrix,
                   total_receiving, optimal_receiving, non_optimal_receiving,
                   type_sel, region_sel, df_flow, df_receiving,
                   lookup, fsVars, elbowVars, bagVars>>

\* The percentage series, after the loop of the receiving analysis.
RecvPercentages ==
    /\ flowPc = "recv_pct"
    /\ flowOut' = [flowOut EXCEPT
          !.optimal_pct = PctSeries(optimal_receiving, total_receiving),
          !.non_optimal_pct = PctSeries(non_optimal_receiving, total_receiving)]
    /\ flowPc' = "all_india"
    /\ UNCHANGED <<cursor, flow_matrix, optimal_matrix, non_optimal_matrix,
                   total_receiving, optimal_receiving, non_optimal_receiving,
                   type_sel, region_sel, df_flow, df_receiving,
                   lookup, fsVars, elbowVars, bagVars>>

\* The All India summaries (region_sel == "All India").
AllIndia ==
    /\ flowPc = "all_india"
    /\ region_sel = "All India"
    /\ LET index == RegionSeq(df_abs)
           sent  == MatrixSum(flow_matrix, index)
           osent == MatrixSum(optimal_matrix, index)
           nsent == MatrixSum(non_optimal_matrix, index)
           recv  == SeriesSum(total_receiving, index)
           orecv == SeriesSum(optimal_receiving, index)
           nrecv == SeriesSum(non_optimal_receiving, index)
       IN  flowOut' = [flowOut EXCEPT
             !.all_india_sending =
                [Total_Units_Sent |-> sent,
                 Optimal_Units_Sent |-> osent,
                 Non_Optimal_Units_Sent |-> nsent,
                 Optimal_Percentage_Sent |-> PctOfTotal(osent, sent),
                 Non_Optimal_Percentage_Sent |-> PctOfTotal(nsent, sent)],
             !.all_india_receiving =
                [Total_Units_Received |-> recv,
                 Optimal_Units_Received |-> orecv,
                 Non_Optimal_Units_Received |-> nrecv,
                 Optimal_Percentage_Received |-> PctOfTotal(orecv, recv),
                 Non_Optimal_Percentage_Received |-> PctOfTotal(nrecv, recv)]]
    /\ flowPc' = "done"
    /\ UNCHANGED <<cursor, flow_matrix, optimal_matrix, non_optimal_matrix,
                   total_receiving, optimal_receiving, non_optimal_receiving,
                   type_sel, region_sel, df_flow, df_receiving,
                   lookup, fsVars, elbowVars, bagVars>>

FlowNext ==
    \/ FlowSkipRow
    \/ FlowCell
    \/ FlowPercentages
    \/ RecvSkipRow
    \/ RecvCell
    \/ RecvPercentages
    \/ AllIndia

SpecFlow == FlowInit /\ [][FlowNext]_vars


FlowRegions == RegionsOf(df_abs)

\* The identity of the partition, the sum being a float64 sum.
MatricesPartition ==
    \A o \in DOMAIN flow_matrix : \A d \in DOMAIN flow_matrix[o] :
        FAdd(optimal_matrix[o][d], non_optimal_matrix[o][d]) = flow_matrix[o][d]
ReceivingPartition ==
    \A d \in DOMAIN total_receiving :
        FAdd(optimal_receiving[d], non_optimal_receiving[d]) = total_receiving[d]

\* The flow values that either analysis accumulates for the selected Type.
AccumulatedCells ==
    {rc \in (DOMAIN df_abs.rows) \X (DOMAIN df_abs.cols) :
        /\ df_abs.rows[rc[1]].Type = type_sel
        /\ Accumulates(df_abs, df_abs.rows[rc[1]].vals[rc[2]],
                       df_abs.cols[rc[2]])}
RECURSIVE SumCells(_)
SumCells(S) ==
    IF S = {} THEN 0
    ELSE LET rc == CHOOSE rc \in S : TRUE
         IN  df_abs.rows[rc[1]].vals[rc[2]] + SumCells(S \ {rc})

\* Every sum of accumulated values has an exact float: the values are whole
\* numbers of units and their total fits the mantissa.
ExactSums == SumCells(AccumulatedCells) <= Pow2(MantissaBits)

\* C3 (as amended): when every sum of the accumulated flow values is exactly
\* representable (integer-valued flows, as piece or shipment counts are),
\* after every accumulation step of calculate_dynamic_flow_analysis
\* optimal_matrix[o][d] + non_optimal_matrix[o][d] = flow_matrix[o][d] for
\* every region pair, and after every step of
\* calculate_dynamic_receiving_analysis optimal_receiving[d] +
\* non_optimal_receiving[d] = total_receiving[d], for any optimal-set table.
C3_PartitionWhenExact ==
    ExactSums => MatricesPartition /\ ReceivingPartition

\* C3 witness: both analyses have finished on exact sums, and a region pair
\* and a receiving region each hold an optimal and a non-optimal part.
C3_Witness ==
    /\ flowPc = "done"
    /\ ExactSums
    /\ \E o \in FlowRegions, d \in FlowRegions :
          optimal_matrix[o][d] > 0 /\ non_optimal_matrix[o][d] > 0
    /\ \E d \in FlowRegions :
          /\ optimal_receiving[d] > 0 /\ non_optimal_receiving[d] > 0
          /\ total_receiving[d] > flow_matrix[d][d]

\* C3 (as stated): for any input table and any optimal-set table the two
\* parts add up to the total exactly, after every accumulation step, for the
\* matrices and for the receiving vectors.
C3_PartitionExactly ==
    MatricesPartition /\ ReceivingPartition

\* C11: the BagSummary has exactly one row per (Region, Service_Type, Type)
\* group of the merged flow records and no other row, and a group with no
\* record at or above the threshold still has its row, with Num_Branches = 0,
\* an empty branch list and Cumulative_Percentage = 0.
C11_ZeroFill ==
    /\ \A i \in DOMAIN df_summary : KeyOf(df_summary[i]) \in GroupKeySet
    /\ \A key \in GroupKeySet :
          /\ Cardinality({i \in DOMAIN df_summary :
                            KeyOf(df_summary[i]) = key}) = 1
          /\ Survivors(key) = {} =>
                \A row \in SummaryRows(key) :
                    /\ row.Num_Branches = 0
                    /\ row.Branches = <<>>
                    /\ row.Cumulative_Percentage = 0

\* C11 witness: after a slider move, a Volume group none of whose branches
\* reaches the threshold (though one has a positive Percentage) is in the
\* summary next to a group that keeps branches.
C11_Witness ==
    /\ thresholds # Thresholds(DefaultVolThresh, DefaultWtThresh)
    /\ \E key \in GroupKeySet :
          /\ key[3] = "Volume"
          /\ Survivors(key) = {}
          /\ \E c \in DOMAIN df_pct.cols : PctRowOf(key).vals[c] > 0
          /\ SummaryRows(key) # {}
    /\ \E row \in Range(df_summary) : row.Num_Branches > 0

(***************************************************************************)
(* build_optimal_branches on its own (src/processing.py 77-115): any       *)
(* BagSummary and any long percentage table, which need not agree.         *)
(***************************************************************************)
OptCols == << <<"A", "1">>, <<"A", "2">>, <<"B", "1">> >>
OptKeys == << <<"AMD", "Air", "Volume">>, <<"AMD", "Air", "Pieces">>,
              <<"BLR", "Air", "Volume">> >>

\* The percentage tables: rows for the first key, or for the first two; the
\* third key never has one.
OptPctTables ==
    { [cols |-> OptCols, rows |-> <<PctRow(OptKeys[1], q)>>] :
          q \in { <<2, 1, 0>>, <<1, 1, 1>> } }
    \cup
    { [cols |-> OptCols,
       rows |-> <<PctRow(OptKeys[1], q), PctRow(OptKeys[2], <<0, 3, 1>>)>>] :
          q \in { <<2, 1, 0>>, <<0, 0, 2>> } }

\* Branch lists of a BagSummary row: empty, blank, columns of the percentage
\* table, a code that is no column of it (C9), and a mix.
OptBranchLists ==
    { <<>>, <<" ", " ">>,
      Join(<< <<"A", "1">> >>),
      Join(<< <<"A", "1">>, <<"A", "2">>, <<"B", "1">> >>),
      Join(<< <<"C", "9">> >>),
      Join(<< <<"C", "9">>, <<"A", "2">> >>) }

GivenBagRow(key, text) ==
    [Region |-> key[1], Service_Type |-> key[2], Type |-> key[3],
     Num_Branches |-> Len(BranchesOf(text)),
     Cumulative_Percentage |-> 0,
     Branches |-> text]

OptimalIdleInit ==
    /\ df_abs = EmptyTable
    /\ thresholds = <<>>
    /\ df_pct \in OptPctTables
    /\ \E t1 \in OptBranchLists, t2 \in OptBranchLists,
          t3 \in { <<>>, Join(<< <<"A", "1">> >>) } :
          df_summary = <<GivenBagRow(OptKeys[1], t1),
                         GivenBagRow(OptKeys[2], t2),
                         GivenBagRow(OptKeys[3], t3)>>
    /\ df_optimal = <<>>
    /\ built = FALSE
    /\ mapping = <<>> /\ df_fd = NoSorting
    /\ FilterIdle
    /\ ElbowIdle
    /\ FlowIdle

\* df_optimal = build_optimal_branches(df_bag, df_pct_long)
BuildOptimal ==
    /\ ~built
    /\ df_optimal' \in build_optimal_branches(df_summary, Melt(df_pct))
    /\ built' = TRUE
    /\ UNCHANGED <<df_abs, df_pct, thresholds, df_summary, mapping, df_fd,
                   fsVars, elbowVars, flowVars>>

OptimalNext == BuildOptimal

SpecOptimal == OptimalIdleInit /\ [][OptimalNext]_vars

\* Whether the percentage table has a record of the group of a BagSummary
\* row for one of the branches the row lists.
LookupFinds(bag) ==
    \E r \in Range(df_pct.rows) : \E c \in DOMAIN df_pct.cols :
        KeyOf(r) = KeyOf(bag) /\ df_pct.cols[c] \in Listed(bag)

\* C12: a BagSummary group whose branch list is empty (or blank), or whose
\* percentage lookup finds no matching row, has no row in the OptimalSet;
\* every other group has exactly one; and the OptimalSet has no other row.
C12_Omission ==
    built =>
        /\ \A bag \in Range(df_summary) :
              Cardinality({i \in DOMAIN df_optimal :
                              KeyOf(df_optimal[i]) = KeyOf(bag)})
                = IF Listed(bag) = {} \/ ~LookupFinds(bag) THEN 0 ELSE 1
        /\ \A opt \in Range(df_optimal) : SummaryRows(KeyOf(opt)) # {}

\* C12 witness: the OptimalSet has been built from a BagSummary with a group
\* whose list is empty, a group whose listed branch the lookup does not
\* find, and a group that gets its row.
C12_Witness ==
    /\ built /\ df_abs = EmptyTable
    /\ \E bag \in Range(df_summary) : bag.Branches = <<>>
    /\ \E bag \in Range(df_summary) : Listed(bag) # {} /\ ~LookupFinds(bag)
    /\ Len(df_optimal) = 1

(***************************************************************************)
(* filter_and_sum: round trip, one-sided filters, empty results, mode.     *)
(***************************************************************************)
AllCells == (1..2) \X (1..2)
AllNumeric == \A rc \in AllCells : IsNumeral(CellText(rc))
MatchingRows == {r \in 1..2 : RowMatches(r)}
MatchingCols == {c \in 1..2 : ColMatches(c)}
NoRowFilter == \A f \in RowSideFilters : fsArgs[f] = None
NoColFilter == \A f \in ColSideFilters : fsArgs[f] = None
OnExpected == Called /\ layout = ExpectedLayout

\* The value of a single cell: its number, or not-a-number.
CellValue(rc) ==
    IF IsNumeral(CellText(rc)) THEN Num(NumeralOf(CellText(rc))) ELSE NaN

\* C13: with every filter unset the result is the sum of the entire data
\* block, no row and no column being excluded (a block with a non-numeric
\* cell giving not-a-number, which is C2's matter); with a filter set on every
\* level, which together identify exactly one row and exactly one column, the
\* result is that single cell's value.
C13_RoundTrip ==
    OnExpected =>
        /\ (NoRowFilter /\ NoColFilter) =>
              /\ AllNumeric => fsResult = Num(NumericSum(AllCells))
              /\ ~AllNumeric => fsResult = NaN
        /\ \A rc \in AllCells :
              ((\A f \in FilterNames : fsArgs[f] # None) /\ Matching = {rc})
                  => fsResult = CellValue(rc)

\* C13 witness: a call with all eleven filters set that singles out the
\* first row and the first column of a block 1, 2 / 4, 8 whose other row and
\* other column each differ at one level, and returns 1.
C13_Witness ==
    /\ OnExpected
    /\ \A f \in FilterNames : fsArgs[f] # None
    /\ Matching = {<<1, 1>>}
    /\ AllNumeric
    /\ fsResult = Num(1)

\* The file of the scenario: values 10, 20 / 30, 40, the rows being two
\* origin branches and the columns two destination branches.
IsScenario ==
    /\ layout = ExpectedLayout
    /\ \A rc \in AllCells : CellText(rc) = ScenarioBlock[rc[1]][rc[2]]

\* C14: on the 2 x 2 matrix [[10, 20], [30, 40]] no filter gives 100, a row
\* filter matching only the first origin row gives 30 and a column filter
\* matching only the second destination column gives 60; in general (numeric
\* block) a call with row filters only returns the sum of all columns of the
\* matching rows and a call with column filters only the sum of all rows of
\* the matching columns.
C14_OneSided ==
    OnExpected =>
        /\ IsScenario =>
              /\ (NoRowFilter /\ NoColFilter) => fsResult = Num(100)
              /\ (NoColFilter /\ ~NoRowFilter /\ MatchingRows = {1})
                    => fsResult = Num(30)
              /\ (NoRowFilter /\ ~NoColFilter /\ MatchingCols = {2})
                    => fsResult = Num(60)
        /\ (AllNumeric /\ NoColFilter)
              => fsResult = Num(NumericSum(MatchingRows \X (1..2)))
        /\ (AllNumeric /\ NoRowFilter)
              => fsResult = Num(NumericSum((1..2) \X MatchingCols))

\* C14 witness: the scenario file queried with the origin-branch filter
\* alone, which keeps the first row out of two: 30.
C14_Witness ==
    /\ OnExpected /\ IsScenario
    /\ fsArgs = [NoArgs EXCEPT !.org_branch = GivenValue.org_branch]
    /\ MatchingRows = {1}
    /\ fsResult = Num(30)

\* C15: whenever the filters leave no row or no column, the call returns 0
\* (no error, no missing value).
C15_EmptyIsZero ==
    (OnExpected /\ (MatchingRows = {} \/ MatchingCols = {}))
        => fsResult = Num(0)

\* C15 witness: a call whose row filters match no row of a file that has a
\* non-numeric cell, while its column filters match a column; it returned 0.
C15_Witness ==
    /\ OnExpected
    /\ MatchingRows = {} /\ MatchingCols # {}
    /\ ~NoColFilter
    /\ ~AllNumeric
    /\ fsResult = Num(0)

\* The mode the claim gives a product code.
ClaimedMode(prod) ==
    IF prod \in {"EP", "BP"} THEN "Air"
    ELSE IF prod \in {"ES", "BS", "GP"} THEN "Ground"
    ELSE "Unknown"

\* The rows a call keeps according to the claim: those whose derived mode is
\* the mode filter's value and that match every other set row filter.
ModeRows ==
    {r \in 1..2 :
        /\ ClaimedMode(csv[6 + r][5]) = fsArgs.mode
        /\ \A f \in RowSideFilters \ {"mode"} :
              fsArgs[f] # None => RowLabel(r, f) = fsArgs[f]}

\* C16: every row has mode "Air" for product EP or BP, "Ground" for ES, BS
\* or GP and "Unknown" for any other code; a call with the mode filter set
\* keeps exactly the rows whose derived mode equals the filter value and
\* that pass the other row filters (numeric block: the result is the sum
\* over these rows and the matching columns).
C16_DerivedMode ==
    (OnExpected /\ fsArgs.mode # None /\ AllNumeric)
        => fsResult = Num(NumericSum(ModeRows \X MatchingCols))

\* C16 witness: a call with mode "Ground" on a file whose first row has
\* product EP and whose second row has product GP: the second row alone is
\* kept.
C16_Witness ==
    /\ OnExpected /\ AllNumeric
    /\ fsArgs.mode = "Ground"
    /\ csv[7][5] = "EP" /\ csv[8][5] = "GP"
    /\ ModeRows = {2}
    /\ fsResult.v > 0

(***************************************************************************)
(* find_elbow: few points, collinear points, translation.                  *)
(***************************************************************************)
\* C17: for an input of fewer than 2 points (the empty sequence, a single
\* point) find_elbow returns index 0 without evaluating any distance (and
\* so without dividing by the zero length of a chord).
C17_FewPoints ==
    (elbowRes.called /\ Len(ex) < 2) =>
        /\ elbowRes.idx = 0
        /\ elbowRes.distances = 0
        /\ ~elbowRes.invalid

\* C17 witness: the call has returned on a single point with y > 0.
C17_Witness ==
    /\ elbowRes.called
    /\ Len(ex) = 1 /\ ey[1] > 0
    /\ elbowRes.idx = 0

\* Every point lies on the line through the first and the last point.
Collinear == \A j \in 0..(Len(ex) - 1) : CrossAbs(j) = 0

\* C18 (the claim as stated): on collinear points (at least two, with a
\* chord of non-zero length) find_elbow returns index 0.
C18_CollinearZero ==
    (elbowRes.called /\ ProperChord /\ Collinear) => elbowRes.idx = 0

\* C19 (the claim as stated): a second evaluation on x + dx, y + dy (dx = dy
\* = 0 included) returns the index of the first evaluation.
C19_TranslationInvariant ==
    elbowRes.twice => elbowRes.idx2 = elbowRes.idx

(***************************************************************************)
(* The worked scenario of the optimal selector.                            *)
(***************************************************************************)
\* One group with the branches A, B, C, D at 40, 30, 20, 10 percent, sorted.
ScenarioGroup == [Region |-> "AMD", Service_Type |-> "Air", Type |-> "Volume"]
ScenarioSubset ==
    << [Branch |-> <<"A">>, Value |-> 40], [Branch |-> <<"B">>, Value |-> 30],
       [Branch |-> <<"C">>, Value |-> 20], [Branch |-> <<"D">>, Value |-> 10] >>

\* find_elbow has returned on x = 1..4 and the cumulative percentages 40, 70,
\* 90, 100 of the group.
SelectorScenario ==
    /\ elbowRes.called
    /\ ex = Arange(Len(ScenarioSubset))
    /\ ey = CumSum([i \in DOMAIN ScenarioSubset |-> ScenarioSubset[i].Value])

\* find_elbow has returned on x = 1..5, y = 50, 75, 85, 92, 100.
DirectScenario ==
    /\ elbowRes.called
    /\ ex = <<1, 2, 3, 4, 5>>
    /\ ey = <<50, 75, 85, 92, 100>>

\* C20: for the group A 40, B 30, C 20, D 10 (cumulative 40, 70, 90, 100) the
\* row of the optimal set has 2 branches, "A, B", capturing 70 percent, not
\* all 4; and on x = 1..5, y = 50, 75, 85, 92, 100 find_elbow returns
\* index 1 or 2.  Both in every build.
C20_WorkedScenario ==
    /\ SelectorScenario =>
          LET r == OptimalRow(ScenarioGroup, ScenarioSubset, elbowRes.idx)
          IN  /\ r.Optimal_Num_Branches = 2
              /\ r.Optimal_Cumulative_Percentage = 70
              /\ r.Branches = <<"A", ",", " ", "B">>
    /\ DirectScenario => elbowRes.idx \in {1, 2}

\* C20 witness: the call on the group's cumulative percentages has returned
\* index 1 after evaluating the four distances.
C20_Witness ==
    /\ SelectorScenario
    /\ elbowRes.distances = 4
    /\ elbowRes.idx = 1

(***************************************************************************)
(* The flow analysis: which values go into which matrix.                   *)
(***************************************************************************)
\* The cells of df_abs (row, branch column) in the order of the two loops,
\* numbered from 1, and how many of them the flow analysis has gone through.
CellAt(k) ==
    <<((k - 1) \div Len(df_abs.cols)) + 1, ((k - 1) % Len(df_abs.cols)) + 1>>
CellCount == Len(df_abs.rows) * Len(df_abs.cols)
FlowCellsDone ==
    IF flowPc = "flow"
    THEN (cursor[1] - 1) * Len(df_abs.cols) + (cursor[2] - 1)
    ELSE CellCount
CellRow(rc)    == df_abs.rows[rc[1]]
CellBranch(rc) == df_abs.cols[rc[2]]
CellFlow(rc)   == CellRow(rc).vals[rc[2]]

\* The float64 sum of the values of the cells of S among the first k cells,
\* added in the order of the loops.
RECURSIVE SumInOrder(_, _)
SumInOrder(S, k) ==
    IF k = 0 THEN 0
    ELSE IF CellAt(k) \in S THEN FAdd(SumInOrder(S, k - 1), CellFlow(CellAt(k)))
    ELSE SumInOrder(S, k - 1)

\* The cells that count for the pair (o, d): a row of the selected type and
\* of origin o, a value neither missing nor zero, a branch code whose first
\* character the table maps to d, d being a region of the Region column.
Contributing(o, d) ==
    {rc \in (DOMAIN df_abs.rows) \X (DOMAIN df_abs.cols) :
        /\ CellRow(rc).Type = type_sel
        /\ CellRow(rc).Region = o
        /\ CellFlow(rc) # Missing /\ CellFlow(rc) # 0
        /\ CellBranch(rc) # <<>>
        /\ CellBranch(rc)[1] \in DOMAIN RegionMapping
        /\ RegionMapping[CellBranch(rc)[1]] = d
        /\ \E r \in DOMAIN df_abs.rows : df_abs.rows[r].Region = d}

\* The optimal set of (Region, Service_Type, selected Type): the branch list
\* of the OptimalSet row of that key, empty when there is no such row.
OptimalSetOf(region, service) ==
    UNION {Range(BranchesOf(df_optimal[i].Branches)) :
             i \in {j \in DOMAIN df_optimal :
                       KeyOf(df_optimal[j]) = <<region, service, type_sel>>}}
InOptimalSet(rc) ==
    CellBranch(rc) \in OptimalSetOf(CellRow(rc).Region, CellRow(rc).Service_Type)

\* C21: at every point of the flow analysis, for every region pair,
\* optimal_matrix holds the sum of the counted values whose branch code is in
\* the optimal set of (the row's Region, the row's Service_Type, the selected
\* Type), and non_optimal_matrix the sum of all other counted values; a row
\* whose key has no optimal set has all its flow in non_optimal_matrix.
C21_Classification ==
    \A o \in FlowRegions, d \in FlowRegions :
        /\ optimal_matrix[o][d] =
             SumInOrder({rc \in Contributing(o, d) : InOptimalSet(rc)},
                        FlowCellsDone)
        /\ non_optimal_matrix[o][d] =
             SumInOrder({rc \in Contributing(o, d) : ~InOptimalSet(rc)},
                        FlowCellsDone)

\* C21 witness: the flow analysis is over; a region pair holds an optimal
\* and a non-optimal part, and a row of the selected type without an optimal
\* set has sent flow, all of it non-optimal.
C21_Witness ==
    /\ flowPc # "flow"
    /\ \E o \in FlowRegions, d \in FlowRegions :
          optimal_matrix[o][d] > 0 /\ non_optimal_matrix[o][d] > 0
    /\ \E r \in DOMAIN df_abs.rows :
          LET row == df_abs.rows[r]
          IN  /\ row.Type = type_sel
              /\ \A i \in DOMAIN df_optimal : KeyOf(df_optimal[i]) # KeyOf(row)
              /\ \E d \in FlowRegions :
                    /\ flow_matrix[row.Region][d] > 0
                    /\ optimal_matrix[row.Region][d] = 0

\* C22: at every point of the flow analysis, for every region pair,
\* flow_matrix holds the sum of exactly the counted values: those of a row of
\* the selected type, neither missing nor zero, whose branch code maps
\* through its first character to a region of the Region column.  No other
\* value is in any of the three matrices: the optimal and the non-optimal
\* matrix hold sums of counted values only.
C22_AccumulationFilter ==
    \A o \in FlowRegions, d \in FlowRegions :
        /\ flow_matrix[o][d] = SumInOrder(Contributing(o, d), FlowCellsDone)
        /\ Contributing(o, d) = {} =>
              optimal_matrix[o][d] = 0 /\ non_optimal_matrix[o][d] = 0

\* C22 witness: the flow analysis is over, having counted some value and
\* passed over a missing value, a zero, a value of a row of the other type,
\* a value under a code that maps to no region (Z9) and a value under a code
\* of a region that is no origin (C1).
C22_Witness ==
    /\ flowPc # "flow"
    /\ \E o \in FlowRegions, d \in FlowRegions : flow_matrix[o][d] > 0
    /\ \E rc \in (DOMAIN df_abs.rows) \X (DOMAIN df_abs.cols) :
          CellRow(rc).Type = type_sel /\ CellFlow(rc) = Missing
    /\ \E rc \in (DOMAIN df_abs.rows) \X (DOMAIN df_abs.cols) :
          CellRow(rc).Type = type_sel /\ CellFlow(rc) = 0
    /\ \E rc \in (DOMAIN df_abs.rows) \X (DOMAIN df_abs.cols) :
          CellRow(rc).Type # type_sel /\ CellFlow(rc) > 0
    /\ \E rc \in (DOMAIN df_abs.rows) \X (DOMAIN df_abs.cols) :
          /\ CellRow(rc).Type = type_sel /\ CellFlow(rc) > 0
          /\ CellBranch(rc)[1] \notin DOMAIN RegionMapping
    /\ \E rc \in (DOMAIN df_abs.rows) \X (DOMAIN df_abs.cols) :
          /\ CellRow(rc).Type = type_sel /\ CellFlow(rc) > 0
          /\ CellBranch(rc)[1] \in DOMAIN RegionMapping
          /\ RegionMapping[CellBranch(rc)[1]] \notin FlowRegions

(***************************************************************************)
(* The percentage matrices.                                                *)
(***************************************************************************)
\* The percentage matrices have been computed.
PctComputed == flowPc \in {"recv", "recv_pct", "all_india", "done"}

\* pct (in hundredths of a percent) is part / total * 100 to two decimals:
\* no further from it than half a hundredth.
IsRounded2(pct, part, total) ==
    LET diff == pct * total - part * 10000
    IN  2 * diff <= total /\ -2 * diff <= total

\* C23: for every region pair whose total flow is not 0 the optimal and the
\* non-optimal percentage are optimal_matrix / flow_matrix * 100 and
\* non_optimal_matrix / flow_matrix * 100 to two decimals, and both
\* percentages are 0 exactly when the total flow of the pair is 0 (flow
\* values being quantities, never negative).
C23_Percentages ==
    PctComputed =>
      \A o \in FlowRegions, d \in FlowRegions :
        LET opt == flowOut.optimal_pct_matrix[o][d]
            non == flowOut.non_optimal_pct_matrix[o][d]
        IN  /\ flow_matrix[o][d] # 0 =>
                  /\ IsRounded2(opt, optimal_matrix[o][d], flow_matrix[o][d])
                  /\ IsRounded2(non, non_optimal_matrix[o][d],
                                flow_matrix[o][d])
            /\ (opt = 0 /\ non = 0) <=> flow_matrix[o][d] = 0

\* C23 witness: the percentages are computed; one pair has a percentage that
\* is no whole percent, another pair has no flow and both percentages 0.
C23_Witness ==
    /\ PctComputed
    /\ \E o \in FlowRegions, d \in FlowRegions :
          /\ flow_matrix[o][d] > 0
          /\ flowOut.optimal_pct_matrix[o][d] % 100 # 0
          /\ flowOut.non_optimal_pct_matrix[o][d] % 100 # 0
    /\ \E o \in FlowRegions, d \in FlowRegions :
          /\ flow_matrix[o][d] = 0
          /\ flowOut.optimal_pct_matrix[o][d] = 0
          /\ flowOut.non_optimal_pct_matrix[o][d] = 0

(***************************************************************************)
(* The receiving side and the All India summaries against the matrices.    *)
(***************************************************************************)
\* The receiving totals of every region are the column sums of the three
\* matrices.
ReceivingIsColumnSum ==
    LET index == RegionSeq(df_abs)
    IN  /\ total_receiving = ColumnSums(flow_matrix, index)
        /\ optimal_receiving = ColumnSums(optimal_matrix, index)
        /\ non_optimal_receiving = ColumnSums(non_optimal_matrix, index)

\* The All India units sent are the All India units received.
SentIsReceived ==
    LET s == flowOut.all_india_sending
        r == flowOut.all_india_receiving
    IN  /\ s.Total_Units_Sent = r.Total_Units_Received
        /\ s.Optimal_Units_Sent = r.Optimal_Units_Received
        /\ s.Non_Optimal_Units_Sent = r.Non_Optimal_Units_Received

\* C24 (as amended): when every sum of the accumulated flow values is
\* exactly representable (integer-valued flows, as piece or shipment counts
\* are), after both analyses total_receiving[d], optimal_receiving[d] and
\* non_optimal_receiving[d] are, for every destination region d, the sums
\* over the origin regions of flow_matrix[o][d], optimal_matrix[o][d] and
\* non_optimal_matrix[o][d], and the All India total, optimal and non-optimal
\* units sent equal the units received.
C24_ReceivingWhenExact ==
    (flowPc = "done" /\ ExactSums) => ReceivingIsColumnSum /\ SentIsReceived

\* C24 witness: both analyses and the summaries are done on exact sums; a
\* region receives from two origins, and All India has optimal and
\* non-optimal units.
C24_Witness ==
    /\ flowPc = "done"
    /\ ExactSums
    /\ \E o1 \in FlowRegions, o2 \in FlowRegions, d \in FlowRegions :
          o1 # o2 /\ flow_matrix[o1][d] > 0 /\ flow_matrix[o2][d] > 0
    /\ flowOut.all_india_sending.Optimal_Units_Sent > 0
    /\ flowOut.all_india_sending.Non_Optimal_Units_Sent > 0
    /\ flowOut.all_india_receiving.Total_Units_Received > 0

\* C24 (as stated): for any input the receiving totals are the column sums
\* of the matrices and the All India units sent equal the units received.
C24_ReceivingAgrees ==
    flowPc = "done" => ReceivingIsColumnSum /\ SentIsReceived


(***************************************************************************)
(* The flow summary lookups (src/processing.py 165-245) on the tables of   *)
(* load_flow_analysis_data.  Percentages are fractions <<numerator,        *)
(* denominator>>; NaNPct is the undefined 0/0.                             *)
(***************************************************************************)
NaNPct == <<0, 0>>
ZeroPct == <<0, 1>>

\* A row of region_to_region_flow_analysis.csv.
FlowRec(origin, dest, type_name, total, optimal) ==
    [Origin_Region |-> origin, Destination_Region |-> dest,
     Type |-> type_name, Total_Flow_Units |-> total,
     Optimal_Flow_Units |-> optimal,
     Non_Optimal_Flow_Units |-> total - optimal]
\* A row of region_receiving_analysis.csv.
RecvRec(region, type_name, total, optimal, opct, npct) ==
    [Region |-> region, Type |-> type_name,
     Total_Units_Received |-> total, Optimal_Units_Received |-> optimal,
     Non_Optimal_Units_Received |-> total - optimal,
     Optimal_Percentage_Received |-> opct,
     Non_Optimal_Percentage_Received |-> npct]

\* Python's None, a dict and a DataFrame as returned values.
NoneValue == [kind |-> "None", v |-> <<>>]
DictValue(d) == [kind |-> "dict", v |-> d]
FrameValue(rows) == [kind |-> "frame", v |-> rows]

\* data[column].sum()
ColumnSum(rows, column) == SumSeq([i \in DOMAIN rows |-> rows[i][column]])

\* data.sort_values(column, ascending=False): the rows in an order of
\* non-increasing values.
SortByDescending(rows, column) ==
    LET n == Len(rows)
    IN  {[i \in 1..n |-> rows[p[i]]] : p \in
            {q \in IndexOrders(n) :
                \A i \in 1..(n - 1) :
                    rows[q[i]][column] >= rows[q[i + 1]][column]}}

\* The sending summary of the selected rows of the flow table.
SendingSummary(data) ==
    LET total == ColumnSum(data, "Total_Flow_Units")
        opt   == ColumnSum(data, "Optimal_Flow_Units")
        non   == ColumnSum(data, "Non_Optimal_Flow_Units")
    IN  [Total_Units_Sent |-> total,
         Optimal_Units_Sent |-> opt,
         Non_Optimal_Units_Sent |-> non,
         Optimal_Percentage_Sent |-> PctOfTotal(opt, total),
         Non_Optimal_Percentage_Sent |-> PctOfTotal(non, total)]

\* The receiving summary of the selected rows of the receiving table.
ReceivingSummary(data) ==
    LET total == ColumnSum(data, "Total_Units_Received")
        opt   == ColumnSum(data, "Optimal_Units_Received")
        non   == ColumnSum(data, "Non_Optimal_Units_Received")
    IN  [Total_Units_Received |-> total,
         Optimal_Units_Received |-> opt,
         Non_Optimal_Units_Received |-> non,
         Optimal_Percentage_Received |-> PctOfTotal(opt, total),
         Non_Optimal_Percentage_Received |-> PctOfTotal(non, total)]

\* The results get_region_flow_summary(df_flow, region, type_name) can
\* return (the order of rows of equal Total_Flow_Units is left to the sort).
get_region_flow_summary(flow, region, type_name) ==
    IF ~flow.loaded THEN {<<NoneValue, NoneValue>>}
    ELSE LET region_data == SelectSeq(flow.rows, LAMBDA r :
                                r.Origin_Region = region /\ r.Type = type_name)
             sending == SelectSeq(region_data, LAMBDA r :
                                r.Total_Flow_Units > 0)
         IN  IF region_data = <<>> THEN {<<NoneValue, NoneValue>>}
             ELSE {<<DictValue(SendingSummary(region_data)), FrameValue(m)>> :
                     m \in SortByDescending(sending, "Total_Flow_Units")}

\* get_region_receiving_summary(df_receiving, region, type_name):
\* region_data.iloc[0].to_dict(), the first matching row as it is.
get_region_receiving_summary(recv, region, type_name) ==
    IF ~recv.loaded THEN NoneValue
    ELSE LET region_data == SelectSeq(recv.rows, LAMBDA r :
                                r.Region = region /\ r.Type = type_name)
         IN  IF region_data = <<>> THEN NoneValue
             ELSE DictValue(region_data[1])

\* The destinations of the model in the order groupby sorts them.
DestinationsSorted == <<"AMD", "BLR", "DEL">>

\* flow_data.groupby('Destination_Region').agg(sum) with the rounded
\* percentage, which is 0/0 for a destination without flow.
TopDestinations(flow_data) ==
    LET keys == SelectSeq(DestinationsSorted, LAMBDA d :
                    \E i \in DOMAIN flow_data :
                        flow_data[i].Destination_Region = d)
    IN  [g \in DOMAIN keys |->
           LET group == SelectSeq(flow_data, LAMBDA r :
                            r.Destination_Region = keys[g])
               total == ColumnSum(group, "Total_Flow_Units")
               opt   == ColumnSum(group, "Optimal_Flow_Units")
           IN  [Destination_Region |-> keys[g],
                Total_Flow_Units |-> total,
                Optimal_Flow_Units |-> opt,
                Non_Optimal_Flow_Units |->
                    ColumnSum(group, "Non_Optimal_Flow_Units"),
                Optimal_Percentage |->
                    IF total = 0 THEN NaNPct
                    ELSE <<Round2Pct(opt, total), 100>>]]

\* The results get_all_india_flow_summary(df_flow, df_receiving, type_name)
\* can return.
get_all_india_flow_summary(flow, recv, type_name) ==
    IF ~flow.loaded \/ ~recv.loaded
    THEN {<<NoneValue, NoneValue, NoneValue>>}
    ELSE LET flow_data == SelectSeq(flow.rows, LAMBDA r : r.Type = type_name)
             receiving_data == SelectSeq(recv.rows, LAMBDA r :
                                   r.Type = type_name)
         IN  IF flow_data = <<>> \/ receiving_data = <<>>
             THEN {<<NoneValue, NoneValue, NoneValue>>}
             ELSE {<<DictValue(SendingSummary(flow_data)),
                     DictValue(ReceivingSummary(receiving_data)),
                     FrameValue(top)>> :
                     top \in SortByDescending(TopDestinations(flow_data),
                                              "Total_Flow_Units")}

\* The tables: None, or some of the rows below in the order of the file.  The
\* flow rows hold a pair without flow; the receiving rows hold regions that
\* receive nothing, one with its percentages at 0 and one with its
\* percentages left undefined.
FlowRecs ==
    << FlowRec("AMD", "AMD", "Volume", 8, 2),
       FlowRec("AMD", "BLR", "Volume", 0, 0),
       FlowRec("BLR", "AMD", "Volume", 8, 8),
       FlowRec("BLR", "BLR", "Billed Wt", 0, 0) >>
RecvRecs ==
    << RecvRec("AMD", "Volume", 16, 10, <<6250, 100>>, <<3750, 100>>),
       RecvRec("BLR", "Volume", 0, 0, ZeroPct, ZeroPct),
       RecvRec("DEL", "Volume", 0, 0, NaNPct, NaNPct),
       RecvRec("BLR", "Billed Wt", 0, 0, ZeroPct, ZeroPct) >>
SubTable(recs, S) == Table(SelectSeq(recs, LAMBDA r : r \in S))
TablesOf(recs) == {NoTable} \cup {SubTable(recs, S) : S \in SUBSET Range(recs)}

LookupRegions == {"AMD", "BLR", "DEL"}
LookupTypes == {"Volume", "Billed Wt", "Pieces"}

LookupInit ==
    /\ df_flow \in TablesOf(FlowRecs)
    /\ df_receiving \in TablesOf(RecvRecs)
    /\ lookup = NoLookup
    /\ type_sel = None /\ region_sel = None
    /\ flowPc = "idle" /\ cursor = <<1, 1>>
    /\ flow_matrix = <<>> /\ optimal_matrix = <<>> /\ non_optimal_matrix = <<>>
    /\ total_receiving = <<>> /\ optimal_receiving = <<>>
    /\ non_optimal_receiving = <<>>
    /\ flowOut = NoFlowOut
    /\ FilterIdle
    /\ ElbowIdle
    /\ BagIdle

\* sending_summary, sending_matrix = get_region_flow_summary(...)
RegionFlowLookup ==
    /\ lookup.fn = "none"
    /\ \E region \in LookupRegions, type_name \in LookupTypes :
          /\ region_sel' = region
          /\ type_sel' = type_name
          /\ \E res \in get_region_flow_summary(df_flow, region, type_name) :
                lookup' = [fn |-> "get_region_flow_summary", result |-> res]
    /\ UNCHANGED <<flowPc, cursor, flow_matrix, optimal_matrix,
                   non_optimal_matrix, total_receiving, optimal_receiving,
                   non_optimal_receiving, flowOut, df_flow, df_receiving,
                   fsVars, elbowVars, bagVars>>

\* receiving_summary = get_region_receiving_summary(...)
RegionReceivingLookup ==
    /\ lookup.fn = "none"
    /\ \E region \in LookupRegions, type_name \in LookupTypes :
          /\ region_sel' = region
          /\ type_sel' = type_name
          /\ lookup' = [fn |-> "get_region_receiving_summary",
                        result |-> <<get_region_receiving_summary(
                                       df_receiving, region, type_name)>>]
    /\ UNCHANGED <<flowPc, cursor, flow_matrix, optimal_matrix,
                   non_optimal_matrix, total_receiving, optimal_receiving,
                   non_optimal_receiving, flowOut, df_flow, df_receiving,
                   fsVars, elbowVars, bagVars>>

\* ..., ..., top_destinations = get_all_india_flow_summary(...)
AllIndiaLookup ==
    /\ lookup.fn = "none"
    /\ \E type_name \in LookupTypes :
          /\ region_sel' = "All India"
          /\ type_sel' = type_name
          /\ \E res \in get_all_india_flow_summary(df_flow, df_receiving,
                                                   type_name) :
                lookup' = [fn |-> "get_all_india_flow_summary",
                           result |-> res]
    /\ UNCHANGED <<flowPc, cursor, flow_matrix, optimal_matrix,
                   non_optimal_matrix, total_receiving, optimal_receiving,
                   non_optimal_receiving, flowOut, df_flow, df_receiving,
                   fsVars, elbowVars, bagVars>>

LookupNext ==
    \/ RegionFlowLookup
    \/ RegionReceivingLookup
    \/ AllIndiaLookup

SpecLookup == LookupInit /\ [][LookupNext]_vars

(***************************************************************************)
(* The sorting location requirement: build_final_sorting (src/processing.py *)
(* 119-148) and the same statements of the script (src/bags.py 208-226,    *)
(* 319-325).                                                               *)
(***************************************************************************)
\* One row of df_mapping.
MappingRow(zone, region, city, code) ==
    [Zone |-> zone, Region |-> region, City |-> city, BranchCode |-> code]

\* df_mapping.groupby("Region").size(): the regions the mapping lists and
\* the number of branches of each.
InMapping(map, region) == \E i \in DOMAIN map : map[i].Region = region
SelfBranches(map, region) ==
    Cardinality({i \in DOMAIN map : map[i].Region = region})

\* The (Region, Type) pairs of the model's tables in the order groupby sorts
\* them.
RegionTypeSorted ==
    << <<"AMD", "Billed Wt">>, <<"AMD", "Pieces">>, <<"AMD", "Volume">>,
       <<"BLR", "Billed Wt">>, <<"BLR", "Pieces">>, <<"BLR", "Volume">> >>

\* The group keys of df_optimal.groupby(["Region", "Type"]).
RegionTypeKeys(optimal) ==
    SelectSeq(RegionTypeSorted, LAMBDA k :
        \E i \in DOMAIN optimal :
            optimal[i].Region = k[1] /\ optimal[i].Type = k[2])

\* ["Optimal_Num_Branches"].sum() of one group.
OptimalBranchSum(optimal, key) ==
    LET group == SelectSeq(optimal, LAMBDA r :
                     r.Region = key[1] /\ r.Type = key[2])
    IN  SumSeq([i \in DOMAIN group |-> group[i].Optimal_Num_Branches])

\* (with the self branches counted once)
SortingLocationNeeded_Once(sum_opt, self_branches) ==
    sum_opt + 60 + self_branches

\* Sorting_Locations_for_Optimal_Branches + 60 + 2 * Self_Branches
SortingLocationNeeded(sum_opt, self_branches) ==
    sum_opt + 60 + 2 * self_branches

\* One row of df_fd: the left merge leaves Self_Branches missing for a
\* region the mapping does not list, and the sum with a missing value is
\* missing.
SortingRow(optimal, map, key) ==
    LET sum_opt == OptimalBranchSum(optimal, key)
    IN  [Region |-> key[1], Type |-> key[2],
         Sorting_Locations_for_Optimal_Branches |-> sum_opt,
         Self_Branches |->
            IF InMapping(map, key[1]) THEN SelfBranches(map, key[1])
            ELSE Missing,
         Sorting_Location_Needed |->
            IF InMapping(map, key[1])
            THEN SortingLocationNeeded(sum_opt, SelfBranches(map, key[1]))
            ELSE Missing]

\* df_fd: the table, or KeyError, which groupby(["Region", "Type"]) raises
\* on pd.DataFrame([]), a frame without columns.
KeyError == [kind |-> "KeyError", rows |-> <<>>]

build_final_sorting(optimal, map) ==
    IF optimal = <<>> \/ map = <<>> THEN KeyError
    ELSE LET keys == RegionTypeKeys(optimal)
         IN  [kind |-> "table",
              rows |-> [g \in DOMAIN keys |->
                          SortingRow(optimal, map, keys[g])]]

\* Mappings: AMD with two branches and BLR unlisted, both regions listed,
\* neither of them listed.
SortingMappings ==
    { << MappingRow("West", "AMD", "Ahmedabad", <<"A", "1">>),
         MappingRow("West", "AMD", "Anand", <<"A", "2">>) >>,
      << MappingRow("West", "AMD", "Ahmedabad", <<"A", "1">>),
         MappingRow("South", "BLR", "Bengaluru", <<"B", "1">>),
         MappingRow("South", "BLR", "Mysuru", <<"B", "2">>),
         MappingRow("South", "BLR", "Mysuru", <<"B", "3">>) >>,
      << MappingRow("North", "DEL", "Delhi", <<"D", "1">>) >> }

\* The mapping of the runs of the script.
ScriptMapping ==
    << MappingRow("West", "AMD", "Ahmedabad", <<"A", "1">>),
       MappingRow("West", "AMD", "Anand", <<"A", "2">>) >>

\* The OptimalSet tables: each of four groups absent or with 1, 2 or 3
\* optimal branches, two of the groups differing in the service type only.
SortingKeys ==
    << <<"AMD", "Air", "Billed Wt">>, <<"AMD", "Air", "Volume">>,
       <<"AMD", "Ground", "Volume">>, <<"BLR", "Air", "Volume">> >>
SortingBranchLists ==
    { <<>>, << <<"A", "1">> >>, << <<"A", "1">>, <<"B", "1">> >>,
      << <<"A", "1">>, <<"A", "2">>, <<"B", "1">> >> }
OptionalRow(key, codes) ==
    IF codes = <<>> THEN <<>> ELSE <<GivenOptimalRow(key, codes)>>

SortingInit ==
    /\ \E c \in [1..Len(SortingKeys) -> SortingBranchLists] :
          df_optimal = OptionalRow(SortingKeys[1], c[1])
                       \o OptionalRow(SortingKeys[2], c[2])
                       \o OptionalRow(SortingKeys[3], c[3])
                       \o OptionalRow(SortingKeys[4], c[4])
    /\ mapping \in SortingMappings
    /\ df_fd = NoSorting
    /\ df_abs = EmptyTable /\ df_pct = EmptyTable /\ thresholds = <<>>
    /\ df_summary = <<>> /\ built = TRUE
    /\ FilterIdle
    /\ ElbowIdle
    /\ FlowIdle

\* df_fd = build_final_sorting(df_optimal)
BuildFinalSorting ==
    /\ df_fd = NoSorting
    /\ df_fd' = build_final_sorting(df_optimal, mapping)
    /\ UNCHANGED <<df_abs, df_pct, thresholds, df_summary, df_optimal, built,
                   mapping, fsVars, elbowVars, flowVars>>

SortingNext == BuildFinalSorting

SpecSorting == SortingInit /\ [][SortingNext]_vars

(***************************************************************************)
(* One run of the script of the bagging dashboard (bags.py 247-325 and     *)
(* 643-723).  The tables are read at the top of the script, the widgets    *)
(* give the parameters, and every change of a widget runs the script again *)
(* from the top: nothing but the widgets' values passes from one run to    *)
(* the next.                                                               *)
(***************************************************************************)
ZeroSums(abs) ==
    [flow_matrix |-> ZeroMatrix(RegionsOf(abs)),
     optimal_matrix |-> ZeroMatrix(RegionsOf(abs)),
     non_optimal_matrix |-> ZeroMatrix(RegionsOf(abs))]
ZeroReceiving(abs) ==
    [total_receiving |-> ZeroSeries(RegionsOf(abs)),
     optimal_receiving |-> ZeroSeries(RegionsOf(abs)),
     non_optimal_receiving |-> ZeroSeries(RegionsOf(abs))]

\* The loop of calculate_dynamic_flow_analysis from the cell cur on, the
\* matrices being sums so far.
RECURSIVE FlowLoop(_, _, _, _, _)
FlowLoop(abs, optimal, type_name, cur, sums) ==
    IF LoopDone(abs, cur) THEN sums
    ELSE LET row == abs.rows[cur[1]]
             branch == abs.cols[cur[2]]
             flow_value == row.vals[cur[2]]
             dest_region == DestRegion(branch)
             isOptimal == branch \in OptimalBranchesFor(
                              optimal,
                              <<row.Region, row.Service_Type, type_name>>)
         IN  IF row.Type # type_name
             THEN FlowLoop(abs, optimal, type_name, <<cur[1] + 1, 1>>, sums)
             ELSE FlowLoop(abs, optimal, type_name,
                           NextCell(abs, cur[1], cur[2]),
                           IF Accumulates(abs, flow_value, branch)
                           THEN [flow_matrix |->
                                    AddAt(sums.flow_matrix, row.Region,
                                          dest_region, flow_value),
                                 optimal_matrix |->
                                    AddAt(sums.optimal_matrix, row.Region,
                                          dest_region,
                                          OptimalShare(isOptimal, flow_value)),
                                 non_optimal_matrix |->
                                    AddAt(sums.non_optimal_matrix, row.Region,
                                          dest_region,
                                          NonOptimalShare(isOptimal,
                                                          flow_value))]
                           ELSE sums)

\* What calculate_dynamic_flow_analysis(df_abs, df_optimal, type_name)
\* returns, but for the percentage matrices.
calculate_dynamic_flow_analysis(abs, optimal, type_name) ==
    FlowLoop(abs, optimal, type_name, <<1, 1>>, ZeroSums(abs))

\* The loop of calculate_dynamic_receiving_analysis from the cell cur on.
RECURSIVE RecvLoop(_, _, _, _, _)
RecvLoop(abs, optimal, type_name, cur, sums) ==
    IF LoopDone(abs, cur) THEN sums
    ELSE LET row == abs.rows[cur[1]]
             branch == abs.cols[cur[2]]
             flow_value == row.vals[cur[2]]
             dest_region == DestRegion(branch)
             isOptimal == branch \in OptimalBranchesFor(
                              optimal,
                              <<row.Region, row.Service_Type, type_name>>)
         IN  IF row.Type # type_name
             THEN RecvLoop(abs, optimal, type_name, <<cur[1] + 1, 1>>, sums)
             ELSE RecvLoop(abs, optimal, type_name,
                           NextCell(abs, cur[1], cur[2]),
                           IF Accumulates(abs, flow_value, branch)
                           THEN [total_receiving |->
                                    AddTo(sums.total_receiving, dest_region,
                                          flow_value),
                                 optimal_receiving |->
                                    AddTo(sums.optimal_receiving, dest_region,
                                          OptimalShare(isOptimal, flow_value)),
                                 non_optimal_receiving |->
                                    AddTo(sums.non_optimal_receiving,
                                          dest_region,
                                          NonOptimalShare(isOptimal,
                                                          flow_value))]
                           ELSE sums)

calculate_dynamic_receiving_analysis(abs, optimal, type_name) ==
    RecvLoop(abs, optimal, type_name, <<1, 1>>, ZeroReceiving(abs))

\* The percentages and the summaries the script derives from the sums: the
\* All India summaries, or those of the selected region.
FlowSummaries(abs, sums, recv, region) ==
    LET index == RegionSeq(abs)
        opct  == PctSeries(recv.optimal_receiving, recv.total_receiving)
        npct  == PctSeries(recv.non_optimal_receiving, recv.total_receiving)
        sent  == IF region = "All India"
                 THEN MatrixSum(sums.flow_matrix, index)
                 ELSE SeriesSum(sums.flow_matrix[region], index)
        osent == IF region = "All India"
                 THEN MatrixSum(sums.optimal_matrix, index)
                 ELSE SeriesSum(sums.optimal_matrix[region], index)
        nsent == IF region = "All India"
                 THEN MatrixSum(sums.non_optimal_matrix, index)
                 ELSE SeriesSum(sums.non_optimal_matrix[region], index)
        orecv == SeriesSum(recv.optimal_receiving, index)
        nrecv == SeriesSum(recv.non_optimal_receiving, index)
        trecv == SeriesSum(recv.total_receiving, index)
        sending ==
            [Total_Units_Sent |-> sent,
             Optimal_Units_Sent |-> osent,
             Non_Optimal_Units_Sent |-> nsent,
             Optimal_Percentage_Sent |-> PctOfTotal(osent, sent),
             Non_Optimal_Percentage_Sent |-> PctOfTotal(nsent, sent)]
    IN  [optimal_pct_matrix |->
            PctMatrix(sums.optimal_matrix, sums.flow_matrix),
         non_optimal_pct_matrix |->
            PctMatrix(sums.non_optimal_matrix, sums.flow_matrix),
         optimal_pct |-> opct,
         non_optimal_pct |-> npct,
         all_india_sending |->
            IF region = "All India" THEN sending ELSE <<>>,
         all_india_receiving |->
            IF region = "All India"
            THEN [Total_Units_Received |-> trecv,
                  Optimal_Units_Received |-> orecv,
                  Non_Optimal_Units_Received |-> nrecv,
                  Optimal_Percentage_Received |-> PctOfTotal(orecv, trecv),
                  Non_Optimal_Percentage_Received |->
                      PctOfTotal(nrecv, trecv)]
            ELSE <<>>,
         sending_summary |->
            IF region = "All India" THEN <<>> ELSE sending,
         receiving_summary |->
            IF region = "All India" THEN <<>>
            ELSE [Total_Units_Received |-> recv.total_receiving[region],
                  Optimal_Units_Received |-> recv.optimal_receiving[region],
                  Non_Optimal_Units_Received |->
                      recv.non_optimal_receiving[region],
                  Optimal_Percentage_Received |-> opct[region],
                  Non_Optimal_Percentage_Received |-> npct[region]]]

\* The flow section of one run (bags.py 643-723).  A run whose OptimalSet
\* has no row ends at line 320, where df_optimal.groupby raises KeyError on a
\* frame without columns: that run shows no flow analysis.
FlowSection(abs, optimal, type_name, region) ==
    IF build_final_sorting(optimal, ScriptMapping) = KeyError
    THEN [flowPc |-> "idle", sums |-> <<>>, recv |-> <<>>, out |-> NoFlowOut]
    ELSE LET sums == calculate_dynamic_flow_analysis(abs, optimal, type_name)
             recv == calculate_dynamic_receiving_analysis(abs, optimal,
                                                          type_name)
         IN  [flowPc |-> "done", sums |-> sums, recv |-> recv,
              out |-> FlowSummaries(abs, sums, recv, region)]

\* The tables the script loads: a Volume row of AMD and a second row of
\* another region or another Type, the values being numbers the sums keep
\* exactly.
ScriptRowValues ==
    { <<0, 0, 0>>, <<40, 40, 40>>, <<40, 24, 0>>, <<24, 0, 40>> }
\* The percentages of the first row: distinct, or two of them equal.
ScriptRowPcts == { <<2, 1, 0>>, <<0, 2, 2>> }
ScriptSecondRows ==
    { [key |-> <<"BLR", "Air", "Volume">>, vals |-> <<40, 0, 24>>,
       pcts |-> <<1, 0, 2>>],
      [key |-> <<"BLR", "Air", "Volume">>, vals |-> <<24, 0, 24>>,
       pcts |-> <<1, 0, 2>>],
      [key |-> <<"AMD", "Air", "Billed Wt">>, vals |-> <<40, 24, 40>>,
       pcts |-> <<1, 0, 2>>] }

\* st.selectbox("Select Type", df_abs["Type"].unique())
TypeOptions(abs) == {abs.rows[r].Type : r \in DOMAIN abs.rows}
\* ["All India"] + sorted(df_abs["Region"].unique())
RegionOptions(abs) == {"All India"} \cup RegionsOf(abs)

ScriptInit ==
    /\ \E v \in ScriptRowValues, q \in ScriptRowPcts,
          r2 \in ScriptSecondRows :
          /\ df_abs = [cols |-> BagCols,
                       rows |-> <<AbsRow(<<"AMD", "Air", "Volume">>, v),
                                  AbsRow(r2.key, r2.vals)>>]
          /\ df_pct = [cols |-> BagCols,
                       rows |-> <<PctRow(<<"AMD", "Air", "Volume">>, q),
                                  PctRow(r2.key, r2.pcts)>>]
    /\ thresholds = Thresholds(DefaultVolThresh, DefaultWtThresh)
    /\ type_sel = df_abs.rows[1].Type
    /\ region_sel = "All India"
    /\ df_summary = build_bag_summary(DfMerge(df_abs, df_pct), thresholds)
    /\ df_optimal \in build_optimal_branches(df_summary, Melt(df_pct))
    /\ built = TRUE
    /\ mapping = ScriptMapping
    /\ df_fd = build_final_sorting(df_optimal, mapping)
    /\ \E run \in {FlowSection(df_abs, df_optimal, type_sel, region_sel)} :
           /\ flowPc = run.flowPc
           /\ flow_matrix = IF run.sums = <<>> THEN <<>>
                            ELSE run.sums.flow_matrix
           /\ optimal_matrix = IF run.sums = <<>> THEN <<>>
                               ELSE run.sums.optimal_matrix
           /\ non_optimal_matrix = IF run.sums = <<>> THEN <<>>
                                   ELSE run.sums.non_optimal_matrix
           /\ total_receiving = IF run.recv = <<>> THEN <<>>
                                ELSE run.recv.total_receiving
           /\ optimal_receiving = IF run.recv = <<>> THEN <<>>
                                  ELSE run.recv.optimal_receiving
           /\ non_optimal_receiving = IF run.recv = <<>> THEN <<>>
                                      ELSE run.recv.non_optimal_receiving
           /\ flowOut = run.out
    /\ cursor = <<1, 1>>
    /\ LookupIdle
    /\ FilterIdle
    /\ ElbowIdle

\* (a run that keeps the OptimalSet and the flow analysis of the run before)
RunScript_Cached(th, type_name, region) ==
    /\ thresholds' = th
    /\ type_sel' = type_name
    /\ region_sel' = region
    /\ df_summary' = build_bag_summary(DfMerge(df_abs, df_pct), th)
    /\ UNCHANGED <<df_optimal, df_fd, flowPc, flow_matrix, optimal_matrix,
                   non_optimal_matrix, total_receiving, optimal_receiving,
                   non_optimal_receiving, flowOut>>

\* One run of the script with the widgets at th, type_name and region.
RunScript(th, type_name, region) ==
    /\ Recompute(th)
    /\ df_fd' = build_final_sorting(df_optimal', mapping)
    /\ type_sel' = type_name
    /\ region_sel' = region
    /\ \E run \in {FlowSection(df_abs, df_optimal', type_name, region)} :
           /\ flowPc' = run.flowPc
           /\ flow_matrix' = IF run.sums = <<>> THEN <<>>
                             ELSE run.sums.flow_matrix
           /\ optimal_matrix' = IF run.sums = <<>> THEN <<>>
                                ELSE run.sums.optimal_matrix
           /\ non_optimal_matrix' = IF run.sums = <<>> THEN <<>>
                                    ELSE run.sums.non_optimal_matrix
           /\ total_receiving' = IF run.recv = <<>> THEN <<>>
                                 ELSE run.recv.total_receiving
           /\ optimal_receiving' = IF run.recv = <<>> THEN <<>>
                                   ELSE run.recv.optimal_receiving
           /\ non_optimal_receiving' = IF run.recv = <<>> THEN <<>>
                                       ELSE run.recv.non_optimal_receiving
           /\ flowOut' = run.out

\* The user moves a threshold slider.
ChangeThresholds ==
    \E vol \in VolStops, wt \in WtStops :
        /\ Thresholds(vol, wt) # thresholds
        /\ RunScript(Thresholds(vol, wt), type_sel, region_sel)
        /\ UNCHANGED <<df_abs, df_pct, built, mapping, cursor, df_flow,
                       df_receiving, lookup, fsVars, elbowVars>>

\* The user selects another Type.
SelectType ==
    \E t \in TypeOptions(df_abs) :
        /\ t # type_sel
        /\ RunScript(thresholds, t, region_sel)
        /\ UNCHANGED <<df_abs, df_pct, built, mapping, cursor, df_flow,
                       df_receiving, lookup, fsVars, elbowVars>>

\* The user selects another region.
SelectRegion ==
    \E r \in RegionOptions(df_abs) :
        /\ r # region_sel
        /\ RunScript(thresholds, type_sel, r)
        /\ UNCHANGED <<df_abs, df_pct, built, mapping, cursor, df_flow,
                       df_receiving, lookup, fsVars, elbowVars>>

ScriptNext ==
    \/ ChangeThresholds
    \/ SelectType
    \/ SelectRegion

SpecScript == ScriptInit /\ [][ScriptNext]_vars

\* The outputs of a run of the script from scratch on the loaded tables with
\* the widgets at their present values.
FromScratchSummary ==
    build_bag_summary(DfMerge(df_abs, df_pct), thresholds)
FromScratchOptimal ==
    build_optimal_branches(FromScratchSummary, Melt(df_pct))
FromScratchFlow ==
    FlowSection(df_abs, df_optimal, type_sel, region_sel)

SameAsFromScratch ==
    /\ df_summary = FromScratchSummary
    /\ df_optimal \in FromScratchOptimal
    /\ flowPc = FromScratchFlow.flowPc
    /\ flowPc = "done" =>
          /\ flow_matrix = FromScratchFlow.sums.flow_matrix
          /\ optimal_matrix = FromScratchFlow.sums.optimal_matrix
          /\ non_optimal_matrix = FromScratchFlow.sums.non_optimal_matrix

\* C25: after any sequence of changes of the thresholds, the selected Type
\* and the selected region, the BagSummary, the OptimalSet and the flow
\* matrices are those a run from scratch on the loaded tables with the
\* present parameter values gives, and no step changes the loaded tables.
C25_HistoryIndependent ==
    /\ [](SameAsFromScratch)
    /\ [][df_abs' = df_abs /\ df_pct' = df_pct]_vars

\* The thresholds, the Type and the region have all been changed, and the
\* flow analysis of the last run has flows on both sides.
C25_Witness ==
    /\ thresholds # Thresholds(DefaultVolThresh, DefaultWtThresh)
    /\ type_sel # df_abs.rows[1].Type
    /\ region_sel # "All India"
    /\ flowPc = "done"
    /\ SameAsFromScratch
    /\ \E o \in DOMAIN optimal_matrix : \E d \in DOMAIN optimal_matrix[o] :
          optimal_matrix[o][d] > 0
    /\ \E o \in DOMAIN non_optimal_matrix :
          \E d \in DOMAIN non_optimal_matrix[o] : non_optimal_matrix[o][d] > 0


(***************************************************************************)
(* The elbow cutoff of a group.                                            *)
(***************************************************************************)
\* x and y are what build_optimal_branches passes for a group of at least
\* two surviving branches: x = 1..N and y the cumulative sums of the
\* percentages in descending order.
GroupCall ==
    /\ Len(ex) >= 2
    /\ ex = Arange(Len(ex))
    /\ ey[1] >= ey[2] - ey[1]
    /\ \A i \in 2..(Len(ey) - 1) : ey[i] - ey[i - 1] >= ey[i + 1] - ey[i]

\* C26 (the claim as stated): for a group of N >= 2 surviving branches
\* find_elbow never returns the last index N - 1, so that
\* Optimal_Num_Branches = x[elbow_idx] is at most N - 1 (and is 1 for N = 2).
C26_NeverLastIndex ==
    (elbowRes.called /\ GroupCall) =>
        /\ elbowRes.idx # Len(ex) - 1
        /\ ex[elbowRes.idx + 1] <= Len(ex) - 1
        /\ Len(ex) = 2 => ex[elbowRes.idx + 1] = 1


(***************************************************************************)
(* Branches of equal Percentage.                                           *)
(***************************************************************************)
\* The percentages behind the cumulative sums find_elbow was called with.
GroupPcts ==
    [i \in DOMAIN ey |-> IF i = 1 THEN ey[1] ELSE ey[i] - ey[i - 1]]

\* A subset of df_pct_long with these percentages, in the order of the table
\* (here: ascending, the reverse of what the sort gives).
GroupSubset ==
    LET n == Len(ey)
    IN  [i \in 1..n |-> [Branch |-> FlowCols[i],
                         Value |-> GroupPcts[n + 1 - i]]]

\* The row the loop appends when sort_values leaves the subset in the order
\* sorted and find_elbow returns what the call returned.
RowOfOrder(sorted) == OptimalRow(ScenarioGroup, sorted, elbowRes.idx)

\* C27: whatever order sort_values gives branches of equal Percentage, the
\* arguments of find_elbow are the same, and so are Optimal_Num_Branches
\* and Optimal_Cumulative_Percentage of the row; only the branches listed
\* can differ.
C27_TieIndependent ==
    (elbowRes.called /\ GroupCall) =>
        \A s1, s2 \in SortDescending(GroupSubset) :
            /\ CumSum([i \in DOMAIN s1 |-> s1[i].Value]) = ey
            /\ RowOfOrder(s1).Optimal_Num_Branches
                  = RowOfOrder(s2).Optimal_Num_Branches
            /\ RowOfOrder(s1).Optimal_Cumulative_Percentage
                  = RowOfOrder(s2).Optimal_Cumulative_Percentage

\* C27 witness: a group with branches of equal Percentage where two orders
\* of the tied branches list different branches in the optimal set.
C27_Witness ==
    /\ elbowRes.called
    /\ GroupCall
    /\ \E s1, s2 \in SortDescending(GroupSubset) :
          /\ Range(CodesOf(UpToElbow(s1, elbowRes.idx)))
                # Range(CodesOf(UpToElbow(s2, elbowRes.idx)))
          /\ RowOfOrder(s1).Optimal_Num_Branches
                = RowOfOrder(s2).Optimal_Num_Branches


(***************************************************************************)
(* The sorting location requirement.                                       *)
(***************************************************************************)
SortingBuilt == df_fd # NoSorting
OptimalRowsOf(region, type_name) ==
    {i \in DOMAIN df_optimal :
        df_optimal[i].Region = region /\ df_optimal[i].Type = type_name}
SortingRowsOf(region, type_name) ==
    {i \in DOMAIN df_fd.rows :
        df_fd.rows[i].Region = region /\ df_fd.rows[i].Type = type_name}
RECURSIVE SumOverRows(_)
SumOverRows(S) ==
    IF S = {} THEN 0
    ELSE LET i == CHOOSE j \in S : TRUE
         IN  df_optimal[i].Optimal_Num_Branches + SumOverRows(S \ {i})
ListedBranches(region) ==
    {mapping[i].BranchCode : i \in {j \in DOMAIN mapping :
                                       mapping[j].Region = region}}
SortingPairs ==
    {<<k[1], k[3]>> : k \in Range(AllKeysSorted)}

\* C28: once build_final_sorting has run, a (Region, Type) with at least one
\* OptimalSet row has exactly one output row, whose Sorting_Location_Needed
\* is the sum of Optimal_Num_Branches over the pair's service types + 60 +
\* 2 * the number of branches the mapping lists for the region, or is
\* missing when the mapping does not list the region; a (Region, Type)
\* with no OptimalSet row has no output row.
C28_SortingRequirement ==
    SortingBuilt =>
        \A rt \in SortingPairs :
            LET rows == OptimalRowsOf(rt[1], rt[2])
                out  == SortingRowsOf(rt[1], rt[2])
            IN  IF rows = {} THEN out = {}
                ELSE /\ Cardinality(out) = 1
                     /\ \A i \in out :
                          df_fd.rows[i].Sorting_Location_Needed =
                             IF ListedBranches(rt[1]) = {} THEN Missing
                             ELSE SumOverRows(rows) + 60
                                  + 2 * Cardinality(ListedBranches(rt[1]))

\* C28 witness: the table has been built from an OptimalSet with two service
\* types of AMD Volume and a row of BLR, AMD being listed with two branches
\* and BLR not listed, and with no Billed Wt row.
C28_Witness ==
    /\ SortingBuilt
    /\ Cardinality(OptimalRowsOf("AMD", "Volume")) = 2
    /\ OptimalRowsOf("AMD", "Billed Wt") = {}
    /\ OptimalRowsOf("BLR", "Volume") # {}
    /\ Cardinality(ListedBranches("AMD")) = 2
    /\ ListedBranches("BLR") = {}
    /\ \E i \in SortingRowsOf("AMD", "Volume") :
          df_fd.rows[i].Sorting_Location_Needed = SumOverRows(OptimalRowsOf("AMD", "Volume")) + 64
    /\ \E i \in SortingRowsOf("BLR", "Volume") :
          df_fd.rows[i].Sorting_Location_Needed = Missing


(***************************************************************************)
(* The Compute Sum button.                                                 *)
(***************************************************************************)
\* The button of dashboard.py has been pressed.
DashboardPressed ==
    fsResult # NotCalled /\ DOMAIN fsArgs = DashboardKeywords

\* The sum of the cells the selected filters keep, the branch codes being
\* applied as the branch-level filters.
FilteredSum ==
    filter_and_sum([f \in FilterNames |->
                      IF f = "org_branch" THEN fsArgs.org_branch_code
                      ELSE IF f = "des_branch" THEN fsArgs.des_branch_code
                      ELSE fsArgs[f]], csv)

\* C29 (the claim as stated): for every combination of selected and
\* unselected filters the call of the Compute Sum button of dashboard.py is
\* accepted by filter_and_sum and its result is the sum of the filtered
\* values, with the selected branch codes as the branch-level filters.
C29_ComputeSumAccepted ==
    DashboardPressed =>
        /\ fsResult # TypeError
        /\ fsResult = FilteredSum


(***************************************************************************)
(* The flow summary lookups.                                               *)
(***************************************************************************)
\* The table is None or has no row of the Type (and of the region, in the
\* given column, unless the lookup is the All India one).
NoRowIn(table, column) ==
    \/ ~table.loaded
    \/ ~\E i \in DOMAIN table.rows :
          /\ table.rows[i].Type = type_sel
          /\ region_sel = "All India" \/ table.rows[i][column] = region_sel

AllNone == \A i \in DOMAIN lookup.result : lookup.result[i].kind = "None"

\* The percentage fields of a returned summary are 0 when its total is not
\* greater than 0.
GuardedPercentages(summary, total, percentages) ==
    (summary.kind = "dict" /\ summary.v[total] <= 0) =>
        \A f \in percentages : summary.v[f] = ZeroPct
GuardedSending(summary) ==
    GuardedPercentages(summary, "Total_Units_Sent",
        {"Optimal_Percentage_Sent", "Non_Optimal_Percentage_Sent"})
GuardedReceiving(summary) ==
    GuardedPercentages(summary, "Total_Units_Received",
        {"Optimal_Percentage_Received", "Non_Optimal_Percentage_Received"})

\* The parts of the claim about absence.
AbsenceAsNone ==
    /\ (lookup.fn = "get_region_flow_summary"
            /\ NoRowIn(df_flow, "Origin_Region")) =>
          Len(lookup.result) = 2 /\ AllNone
    /\ (lookup.fn = "get_region_receiving_summary"
            /\ NoRowIn(df_receiving, "Region")) =>
          Len(lookup.result) = 1 /\ AllNone
    /\ (lookup.fn = "get_all_india_flow_summary"
            /\ (NoRowIn(df_flow, "Type") \/ NoRowIn(df_receiving, "Type"))) =>
          Len(lookup.result) = 3 /\ AllNone

\* The part of the claim about the summaries the lookups compute.
ComputedSummariesGuarded ==
    /\ lookup.fn = "get_region_flow_summary" =>
          GuardedSending(lookup.result[1])
    /\ lookup.fn = "get_all_india_flow_summary" =>
          GuardedSending(lookup.result[1])
          /\ GuardedReceiving(lookup.result[2])

\* C30 (the claim as stated): each lookup returns None (in every position)
\* when its table is None or has no matching row, and in every returned
\* sending or receiving summary the percentage fields are 0 whenever the
\* total is not greater than 0.
C30_AbsenceAndGuardedPercentages ==
    /\ AbsenceAsNone
    /\ ComputedSummariesGuarded
    /\ lookup.fn = "get_region_receiving_summary" =>
          GuardedReceiving(lookup.result[1])

====
